---- MODULE Spec2Model ----
(***************************************************************************)
(* Verification model of the HL config library: the polymorphic Value      *)
(* (Value.hpp / Value.cpp), its object payload (ObjectValue on vector_map),*)
(* the configuration composer (Config.cpp: import and template expansion)  *)
(* and the YAML event binder (ValueYaml.cpp).                              *)
(*                                                                         *)
(* Payloads (ArrayValue, ObjectValue) live in `heap`, a sequence indexed   *)
(* by address; a Value is a record holding its type tag, its scalar        *)
(* payload and, for arrays and objects, the address of its payload (0 is   *)
(* the null pointer). Strings are immutable and compared by content, so    *)
(* they are held by value.                                                 *)
(***************************************************************************)
EXTENDS Integers, Sequences, FiniteSets, TLC

VARIABLES heap, vals, pc, aux

vars == <<heap, vals, pc, aux>>

\* With(e, LAMBDA x : body) is  LET x == e IN body  with e evaluated once,
\* and evaluated before body is (the test does nothing else).
With(v, K(_)) == IF v = v THEN K(v) ELSE K(v)

----------------------------------------------------------------------------
(* Value: the tagged union of Value.hpp.                                   *)

MkValue(t, n, s, r) == [type |-> t, num |-> n, str |-> s, ref |-> r]

\* HL::kNullValue, and a default-constructed Value.
kNullValue == MkValue("null", 0, "", 0)

IntValue(n) == MkValue("int", n, "", 0)

BoolValue(b) == MkValue("bool", IF b THEN 1 ELSE 0, "", 0)

StringValue(s) == MkValue("string", 0, s, 0)

\* Value(ArrayValue*), Value(ObjectValue*) : hold a reference to a payload.
ArrayRef(r) == MkValue("array", 0, "", r)

ObjectRef(r) == MkValue("object", 0, "", r)

\* Payloads. An ObjectValue is its sorted member vector and its modCount;
\* an ArrayValue is its fixed element vector.
ObjectPayload(m, mc) == [kind |-> "object", map |-> m, elts |-> <<>>, modCount |-> mc]

ArrayPayload(es) == [kind |-> "array", map |-> <<>>, elts |-> es, modCount |-> 0]

----------------------------------------------------------------------------
(* vector_map<AutoRef<StringValue>, Value, MemberMapEqual>                  *)

\* Every key the model uses, in strcmp (byte) order.
KeyOrder == << "", "<<", "a", "a[0]", "b", "false", "import", "p", "q", "sub", "t", "template",
              "true", "u" >>

KeyRank(k) == CHOOSE i \in 1..Len(KeyOrder) : KeyOrder[i] = k

\* MemberMapEqual: strcmp(a, b) < 0.
KeyLess(a, b) == KeyRank(a) < KeyRank(b)

\* std::lower_bound over [first, first + count) as vector_map::find calls it.
RECURSIVE LowerBoundFrom(_, _, _, _)
LowerBoundFrom(m, key, first, count) ==
    IF count <= 0 THEN first
    ELSE LET step == count \div 2
             it   == first + step
         IN  IF KeyLess(m[it].first, key)
             THEN LowerBoundFrom(m, key, it + 1, count - (step + 1))
             ELSE LowerBoundFrom(m, key, first, step)

\* vector_map::find : the index of the element with this key, 0 for end().
MapFind(m, key) ==
    LET it == LowerBoundFrom(m, key, 1, Len(m))
    IN  IF it <= Len(m) /\ ~KeyLess(key, m[it].first) THEN it ELSE 0

\* An insert that puts a new key at the back of the vector.
MapInsertBack(m, key) ==
    IF \E i \in 1..Len(m) : m[i].first = key
    THEN [map |-> m, it |-> CHOOSE i \in 1..Len(m) : m[i].first = key]
    ELSE [map |-> Append(m, [first |-> key, second |-> kNullValue]), it |-> Len(m) + 1]

\* vector_map::operator[] : insert(value_type(key, Value())) at the lower bound
\* unless the key is there; yields the map and the element's index.
MapInsert(m, key) ==
    LET it == LowerBoundFrom(m, key, 1, Len(m))
    IN  IF it <= Len(m) /\ ~KeyLess(key, m[it].first)
        THEN [map |-> m, it |-> it]
        ELSE [map |-> SubSeq(m, 1, it - 1)
                        \o << [first |-> key, second |-> kNullValue] >>
                        \o SubSeq(m, it, Len(m)),
              it  |-> it]

\* std::vector::erase(it)
MapErase(m, it) == SubSeq(m, 1, it - 1) \o SubSeq(m, it + 1, Len(m))

----------------------------------------------------------------------------
(* ObjectValue                                                             *)

\* ObjectValue::Member
ObjectMember(h, o, key) ==
    LET it == MapFind(h[o].map, key)
    IN  IF it # 0 THEN h[o].map[it].second ELSE kNullValue

\* ObjectValue::HasMember
ObjectHasMember(h, o, key) == MapFind(h[o].map, key) # 0

\* ObjectValue::UpdateMember : mModCount++, then find or insert a null member.
ObjectUpdateMember(h, o, key) ==
    LET r == MapInsert(h[o].map, key)
    IN  [h  |-> [h EXCEPT ![o].map = r.map, ![o].modCount = @ + 1],
         it |-> r.it]

\* ObjectValue::UpdateMemberPtr : index of the member (0 for nullptr);
\* mModCount++ only when found.
ObjectUpdateMemberPtr(h, o, key) ==
    LET it == MapFind(h[o].map, key)
    IN  [h  |-> IF it # 0 THEN [h EXCEPT ![o].modCount = @ + 1] ELSE h,
         it |-> it]

\* ObjectValue::RemoveMember
ObjectRemoveMember(h, o, key) ==
    LET it == MapFind(h[o].map, key)
    IN  IF it = 0 THEN [h |-> h, ok |-> FALSE]
        ELSE [h  |-> [h EXCEPT ![o].map = MapErase(@, it), ![o].modCount = @ + 1],
              ok |-> TRUE]

\* ObjectValue::Swap : the member maps change places, both modCounts advance.
ObjectSwap(h, a, b) ==
    LET ma == h[a].map
        mb == h[b].map
        h1 == [h EXCEPT ![a].map = mb, ![a].modCount = @ + 1]
    IN  [h1 EXCEPT ![b].map = (IF a = b THEN mb ELSE ma), ![b].modCount = @ + 1]

----------------------------------------------------------------------------
(* Value: copy, swap, assignment, merge                                    *)

\* Value::Value(const Value&) : scalars and strings by value, arrays share the
\* payload, objects get `new ObjectValue(*other)`, whose member vector is
\* copied element by element with this same constructor.
RECURSIVE ValueCopy(_, _)
RECURSIVE CopyMembers(_, _, _)
CopyMembers(h, m, n) ==
    IF n = 0 THEN [h |-> h, out |-> <<>>]
    ELSE With(CopyMembers(h, m, n - 1), LAMBDA acc :
         With(ValueCopy(acc.h, m[n].second), LAMBDA c :
             [h   |-> c.h,
              out |-> Append(acc.out, [first |-> m[n].first, second |-> c.v])]))

ValueCopy(h, other) ==
    IF other.type = "object"
    THEN With(CopyMembers(h, h[other.ref].map, Len(h[other.ref].map)), LAMBDA c :
         With(Append(c.h, ObjectPayload(c.out, h[other.ref].modCount)), LAMBDA nh :
             [h |-> nh, v |-> ObjectRef(Len(nh))]))
    ELSE [h |-> h, v |-> other]

\* Value::Swap
ValueSwap(h, a, b) ==
    IF a.type = "object" /\ b.type = "object"
    THEN [h |-> ObjectSwap(h, a.ref, b.ref), a |-> a, b |-> b]
    ELSE [h |-> h, a |-> b, b |-> a]

\* Value::operator=(const Value&) : Value temp(other); Swap(temp);
ValueAssign(h, this, other) ==
    With(ValueCopy(h, other), LAMBDA c :
    With(ValueSwap(c.h, this, c.v), LAMBDA s :
        [h |-> s.h, v |-> s.a]))

\* Value::ToObject : a null Value becomes a new empty object.
ValueToObject(h, v) ==
    IF v.type = "null"
    THEN With(Append(h, ObjectPayload(<<>>, 0)), LAMBDA nh :
             [h |-> nh, v |-> ObjectRef(Len(nh)), ok |-> TRUE])
    ELSE [h |-> h, v |-> v, ok |-> v.type = "object"]

RECURSIVE ValueMerge(_, _, _)
RECURSIVE ObjectMergeFrom(_, _, _, _)

\* A merge that replaces instead of recursing into object members.
ValueMergeShallow(h, this, overrides) ==
    IF overrides.type = "null" THEN [h |-> h, v |-> this]
    ELSE ValueAssign(h, this, overrides)

\* Value::Merge
ValueMerge(h, this, overrides) ==
    IF overrides.type = "null" THEN [h |-> h, v |-> this]
    ELSE IF overrides.type # "object" \/ this.type # "object"
         THEN ValueAssign(h, this, overrides)
         ELSE [h |-> ObjectMergeFrom(h, this.ref, overrides.ref,
                                     Len(h[overrides.ref].map)),
               v |-> this]

\* ObjectValue::Merge : the heap after the range-for over `overrides` has
\* done its first n members.
ObjectMergeFrom(h, o, ov, n) ==
    IF n = 0 THEN h
    ELSE With(ObjectMergeFrom(h, o, ov, n - 1), LAMBDA g :
         With(g[ov].map[n], LAMBDA nv :
           IF nv.second.type = "null"
           THEN ObjectRemoveMember(g, o, nv.first).h
           ELSE With(ObjectUpdateMember(g, o, nv.first), LAMBDA u :
                With(ValueMerge(u.h, u.h[o].map[u.it].second, nv.second), LAMBDA m :
                    [m.h EXCEPT ![o].map[u.it].second = m.v]))))

\* ObjectValue::Merge
ObjectMerge(h, o, ov) == ObjectMergeFrom(h, o, ov, Len(h[ov].map))

----------------------------------------------------------------------------
(* Value trees: what a Value holds, read through the heap. Two Values have *)
(* the same tree exactly when Value::operator== holds and Compare is 0.    *)

Tree(t, n, s, kids) == [type |-> t, num |-> n, str |-> s, kids |-> kids]

TNull == Tree("null", 0, "", <<>>)

TInt(n) == Tree("int", n, "", <<>>)

TBool(b) == Tree("bool", IF b THEN 1 ELSE 0, "", <<>>)

TStr(s) == Tree("string", 0, s, <<>>)

\* num is 1 for an array with a payload, 0 for an array Value whose mArray is null.
TArr(elts) == Tree("array", 1, "", [i \in 1..Len(elts) |-> [name |-> "", value |-> elts[i]]])

TArrNoPayload == Tree("array", 0, "", <<>>)

TObj(kids) == Tree("object", 0, "", kids)

Kid(k, t) == << [name |-> k, value |-> t] >>

\* The tree of the Value v in heap h (Value::operator==, ArrayValue::operator==
\* and ObjectValue::operator== compare exactly this).
RECURSIVE Snapshot(_, _)
Snapshot(h, v) ==
    IF v.type = "object"
    THEN TObj([i \in 1..Len(h[v.ref].map) |->
                  [name  |-> h[v.ref].map[i].first,
                   value |-> Snapshot(h, h[v.ref].map[i].second)]])
    ELSE IF v.type = "array"
    THEN IF v.ref = 0 THEN TArrNoPayload
         ELSE Tree("array", 1, "",
                   [i \in 1..Len(h[v.ref].elts) |->
                       [name |-> "", value |-> Snapshot(h, h[v.ref].elts[i])]])
    ELSE Tree(v.type, v.num, v.str, <<>>)

\* The member of object tree t named k, or "absent".
TAbsent == Tree("absent", 0, "", <<>>)

TMember(t, k) ==
    IF t.type = "object" /\ \E i \in 1..Len(t.kids) : t.kids[i].name = k
    THEN t.kids[CHOOSE i \in 1..Len(t.kids) : t.kids[i].name = k].value
    ELSE TAbsent

\* The object tree t without its members named k.
TWithout(t, k) == TObj(SelectSeq(t.kids, LAMBDA kid : kid.name # k))

\* JsonReader::ReadValue / ReadObject / ReadArray : the Value a reader builds
\* for a parsed document. An object is MakeObject() and one UpdateMember per
\* member; an array is built from its parsed elements.
RECURSIVE Build(_, _)
RECURSIVE BuildMembers(_, _, _, _)
RECURSIVE BuildElts(_, _, _)
BuildMembers(h, o, kids, n) ==
    IF n = 0 THEN h
    ELSE With(BuildMembers(h, o, kids, n - 1), LAMBDA g :
         With(ObjectUpdateMember(g, o, kids[n].name), LAMBDA u :
         With(Build(u.h, kids[n].value), LAMBDA b :
             [b.h EXCEPT ![o].map[u.it].second = b.v])))

BuildElts(h, kids, n) ==
    IF n = 0 THEN [h |-> h, out |-> <<>>]
    ELSE With(BuildElts(h, kids, n - 1), LAMBDA acc :
         With(Build(acc.h, kids[n].value), LAMBDA b :
             [h |-> b.h, out |-> Append(acc.out, b.v)]))

Build(h, t) ==
    IF t.type = "object"
    THEN With(Append(h, ObjectPayload(<<>>, 0)), LAMBDA nh :
             [h |-> BuildMembers(nh, Len(nh), t.kids, Len(t.kids)),
              v |-> ObjectRef(Len(nh))])
    ELSE IF t.type = "array"
    THEN IF t.num = 0 THEN [h |-> h, v |-> ArrayRef(0)]
         ELSE With(BuildElts(h, t.kids, Len(t.kids)), LAMBDA e :
              With(Append(e.h, ArrayPayload(e.out)), LAMBDA nh :
                  [h |-> nh, v |-> ArrayRef(Len(nh))]))
    ELSE [h |-> h, v |-> MkValue(t.type, t.num, t.str, 0)]

\* Input documents: object trees over the member names "a" and "b" with
\* exactly n nodes below the root, leaves drawn from lv.
RECURSIVE ObjectTrees(_, _)
MemberTrees(n, lv) ==
    IF n = 0 THEN {TAbsent}
    ELSE IF n = 1 THEN lv \cup {TObj(<<>>)}
    ELSE ObjectTrees(n - 1, lv)

KidOrNone(k, t) == IF t = TAbsent THEN <<>> ELSE Kid(k, t)

ObjectTrees(n, lv) ==
    UNION { { TObj(KidOrNone("a", ta) \o KidOrNone("b", tb)) :
                ta \in MemberTrees(na, lv), tb \in MemberTrees(n - na, lv) } :
            na \in 0..n }

----------------------------------------------------------------------------
(* Merge: A.Merge(B) on two object Values.                                 *)

\* Nodes in the two merged documents together.
MaxMergeNodes == 4

LeavesA == {TNull, TInt(1), TArr(<<TInt(1)>>)}

LeavesB == {TNull, TInt(2), TStr("s")}

InitMerge ==
    \E na \in 0..MaxMergeNodes : \E nb \in 0..(MaxMergeNodes - na) :
      \E ta \in ObjectTrees(na, LeavesA) : \E tb \in ObjectTrees(nb, LeavesB) :
        LET ba == Build(<<>>, ta)
            bb == Build(ba.h, tb)
        IN  /\ heap = bb.h
            /\ vals = [A |-> ba.v, B |-> bb.v]
            /\ pc = "init"
            /\ aux = [A0 |-> ta, B0 |-> tb]

\* A.Merge(B)
DoMerge ==
    /\ pc = "init"
    /\ LET r == ValueMerge(heap, vals.A, vals.B)
       IN  /\ heap' = r.h
           /\ vals' = [vals EXCEPT !.A = r.v]
    /\ pc' = "merged"
    /\ UNCHANGED aux

NextMerge == DoMerge

SpecMerge == InitMerge /\ [][NextMerge]_vars

\* The member the claim's rule gives A under key k after A.Merge(B), from the
\* trees a and b the two objects had before (TAbsent: no such member).
RECURSIVE MergedMember(_, _, _)
MergedMember(a, b, k) ==
    LET ak == TMember(a, k)
        bk == TMember(b, k)
    IN  IF bk = TAbsent THEN ak
        ELSE IF bk.type = "null" THEN TAbsent
        ELSE IF ak.type = "object" /\ bk.type = "object"
        THEN LET ms == [i \in 1..Len(KeyOrder) |-> MergedMember(ak, bk, KeyOrder[i])]
                 ks == SelectSeq([i \in 1..Len(KeyOrder) |->
                                     [name |-> KeyOrder[i], value |-> ms[i]]],
                                 LAMBDA kid : kid.value # TAbsent)
             IN  TObj(ks)
        ELSE bk

\* C1: after A.Merge(B) on objects, for every key k: A[k] is as before when B
\* has no k, absent when B[k] is null, the recursive merge when both members
\* are objects, and B[k] otherwise; B itself is untouched.
C1_MergeContract ==
    pc = "merged" =>
        /\ vals.A.type = "object"
        /\ \A i \in 1..Len(KeyOrder) :
              TMember(Snapshot(heap, vals.A), KeyOrder[i])
                = MergedMember(aux.A0, aux.B0, KeyOrder[i])
        /\ Snapshot(heap, vals.B) = aux.B0

\* A merge in which all four cases met: a key only in A, a null override, a
\* recursive object-object merge and a plain replacement.
C1_Witness ==
    /\ pc = "merged"
    /\ TMember(aux.A0, "a").type = "object"
    /\ TMember(aux.B0, "a").type = "object"
    /\ TMember(TMember(aux.A0, "a"), "a").type = "int"
    /\ TMember(TMember(aux.B0, "a"), "a").type = "null"
    /\ TMember(TMember(Snapshot(heap, vals.A), "a"), "a") = TAbsent

----------------------------------------------------------------------------
(* Copy and mutate: v is made a copy of the object u, then statements of    *)
(* the form  v(k1)[i]....op(...)  run against v.                            *)

\* ObjectValue::SetMember : UpdateMember(key) = v; mModCount++;
ObjectSetMember(h, o, key, v) ==
    With(ObjectUpdateMember(h, o, key), LAMBDA u :
    With(ValueAssign(u.h, u.h[o].map[u.it].second, v), LAMBDA a :
        [a.h EXCEPT ![o].map[u.it].second = a.v, ![o].modCount = @ + 1]))

\* ObjectValue::RemoveMembers
ObjectRemoveMembers(h, o) ==
    IF h[o].map # <<>> THEN [h EXCEPT ![o].map = <<>>, ![o].modCount = @ + 1] ELSE h

\* The operation that ends a statement, applied to the Value reached.
\*   set    : Value::SetMember(key, Value(2))
\*   remove : Value::RemoveMember(key)
\*   assign : Value::operator=(int32_t) (MakeNull, then the int)
\*   clear  : Value::clear()
ValueApplyOp(h, val, op) ==
    IF op.op = "set"
    THEN With(ValueToObject(h, val), LAMBDA t :
             IF t.ok THEN [h |-> ObjectSetMember(t.h, t.v.ref, op.key, IntValue(2)), v |-> t.v]
             ELSE [h |-> h, v |-> val])
    ELSE IF op.op = "remove"
    THEN IF val.type = "object"
         THEN [h |-> ObjectRemoveMember(h, val.ref, op.key).h, v |-> val]
         ELSE [h |-> h, v |-> val]
    ELSE IF op.op = "assign"
    THEN [h |-> h, v |-> IntValue(2)]
    ELSE IF val.type = "object" THEN [h |-> ObjectRemoveMembers(h, val.ref), v |-> val]
    ELSE IF val.type = "array"  THEN [h |-> h, v |-> ArrayRef(0)]
    ELSE [h |-> h, v |-> val]

\* The statement  val(path[i])...(path[n]).op : each step is the non-const
\* operator()(key) (ToObject, then ObjectValue::UpdateMember) or the non-const
\* operator[](index) (Value::Elt), and yields a Value& into the payload it
\* reached. A step that fails yields kNullValueScratch, a static no document
\* holds, so the rest of the statement leaves every document alone. `ub` is
\* set when an Elt step indexes outside its array.
RECURSIVE ValueApplyAt(_, _, _, _, _)
ValueApplyAt(h, val, path, i, op) ==
    IF i > Len(path) THEN ValueApplyOp(h, val, op) @@ [ub |-> FALSE]
    ELSE IF path[i].step = "key"
    THEN With(ValueToObject(h, val), LAMBDA t :
             IF ~t.ok THEN [h |-> h, v |-> val, ub |-> FALSE]
             ELSE With(ObjectUpdateMember(t.h, t.v.ref, path[i].key), LAMBDA u :
                  With(ValueApplyAt(u.h, u.h[t.v.ref].map[u.it].second, path, i + 1, op),
                       LAMBDA r :
                      [h  |-> [r.h EXCEPT ![t.v.ref].map[u.it].second = r.v],
                       v  |-> t.v,
                       ub |-> r.ub])))
    ELSE IF val.type # "array" THEN [h |-> h, v |-> val, ub |-> FALSE]
    ELSE IF val.ref = 0 \/ path[i].idx < 0 \/ path[i].idx >= Len(h[val.ref].elts)
         THEN [h |-> h, v |-> val, ub |-> TRUE]
         ELSE With(ValueApplyAt(h, h[val.ref].elts[path[i].idx + 1], path, i + 1, op),
                   LAMBDA r :
                  [h  |-> [r.h EXCEPT ![val.ref].elts[path[i].idx + 1] = r.v],
                   v  |-> val,
                   ub |-> r.ub])

\* Nodes below the root of the copied document.
MaxCopyNodes == 2

\* Statements run against the copy.
MaxMutations == 2

\* Steps in one statement's path.
MaxPathLen == 2

LeavesCopy == {TInt(1), TArr(<<TInt(1)>>), TArr(<<TObj(Kid("a", TInt(1)))>>)}

PathSteps == {[step |-> "key", key |-> "a", idx |-> 0],
              [step |-> "key", key |-> "b", idx |-> 0],
              [step |-> "elt", key |-> "", idx |-> 0]}

Paths == UNION { [1..n -> PathSteps] : n \in 0..MaxPathLen }

Ops == {[op |-> "set", key |-> "a"], [op |-> "remove", key |-> "a"],
        [op |-> "assign", key |-> ""], [op |-> "clear", key |-> ""]}

\* u holds an object document; v is still to be made (a null Value, or an
\* object Value about to be assigned to).
InitCopy ==
    \E n \in 0..MaxCopyNodes : \E tu \in ObjectTrees(n, LeavesCopy) :
      \E tv \in {TNull, TObj(Kid("b", TInt(3)))} :
        LET bu == Build(<<>>, tu)
            bv == Build(bu.h, tv)
        IN  /\ heap = bv.h
            /\ vals = [u |-> bu.v, v |-> bv.v]
            /\ pc = "init"
            /\ aux = [u0 |-> tu, umc0 |-> bu.h[bu.v.ref].modCount, n |-> 0,
                      last |-> <<>>]

\* Value v(u);
CopyConstruct ==
    /\ pc = "init"
    /\ vals.v.type = "null"
    /\ LET c == ValueCopy(heap, vals.u)
       IN  /\ heap' = c.h
           /\ vals' = [vals EXCEPT !.v = c.v]
    /\ pc' = "copied"
    /\ UNCHANGED aux

\* v = u;
CopyAssign ==
    /\ pc = "init"
    /\ LET c == ValueAssign(heap, vals.v, vals.u)
       IN  /\ heap' = c.h
           /\ vals' = [vals EXCEPT !.v = c.v]
    /\ pc' = "copied"
    /\ UNCHANGED aux

\* One statement against v whose every Elt step is in range.
Mutate ==
    /\ pc = "copied"
    /\ aux.n < MaxMutations
    /\ \E path \in Paths : \E op \in Ops :
         LET r == ValueApplyAt(heap, vals.v, path, 1, op)
         IN  /\ ~r.ub
             /\ heap' = r.h
             /\ vals' = [vals EXCEPT !.v = r.v]
             /\ aux' = [aux EXCEPT !.n = @ + 1, !.last = <<path, op>>]
    /\ UNCHANGED pc

NextCopy == CopyConstruct \/ CopyAssign \/ Mutate

SpecCopy == InitCopy /\ [][NextCopy]_vars

\* C2: once v is a copy of the object u, whatever is done through v leaves
\* u's tree and u's modCount as they were when the copy was made.
C2_CopyIsolation ==
    pc = "copied" =>
        /\ Snapshot(heap, vals.u) = aux.u0
        /\ heap[vals.u.ref].modCount = aux.umc0

----------------------------------------------------------------------------
(* Element access: Value::Elt(index) on an array Value.                    *)

\* Longest array.
MaxArrayLen == 2

\* Values a read outside the array can come back with: whatever the bytes
\* next to the payload (or at address 0 + offset) happen to hold.
GarbageValues == {kNullValue, IntValue(7), MkValue("invalid", 0, "", 0)}

EltLeaves == {TNull, TInt(1), TStr("s")}

\* Array Values with and without a payload, and one Value that is no array.
EltInputs == {TArrNoPayload, TInt(1)} \cup
              UNION { { TArr(es) : es \in [1..n -> EltLeaves] } : n \in 0..MaxArrayLen }

InitElt ==
    \E t \in EltInputs :
        LET b == Build(<<>>, t)
        IN  /\ heap = b.h
            /\ vals = [w |-> b.v]
            /\ pc = "idle"
            /\ aux = [idx |-> 0, ret |-> kNullValue, oob |-> FALSE, crash |-> FALSE]

\* Value::NumElts
ValueNumElts(h, v) ==
    IF v.type = "array" THEN (IF v.ref # 0 THEN Len(h[v.ref].elts) ELSE 0) ELSE 0

\* const Value& Value::Elt(int index) const : `(*mValue.mArray)[index]` is
\* data[index] with no test of mArray or of index. In range it is the
\* element. Otherwise the read is outside the payload (or through a null
\* mArray): it may fault, or come back with any bytes.
EltRead(i) ==
    /\ pc = "idle"
    /\ IF vals.w.type # "array"
       THEN aux' = [idx |-> i, ret |-> kNullValue, oob |-> FALSE, crash |-> FALSE]
       ELSE IF vals.w.ref # 0 /\ 0 <= i /\ i < Len(heap[vals.w.ref].elts)
       THEN aux' = [idx |-> i, ret |-> heap[vals.w.ref].elts[i + 1],
                    oob |-> FALSE, crash |-> FALSE]
       ELSE \/ aux' = [idx |-> i, ret |-> kNullValue, oob |-> TRUE, crash |-> TRUE]
            \/ \E g \in GarbageValues :
                  aux' = [idx |-> i, ret |-> g, oob |-> TRUE, crash |-> FALSE]
    /\ pc' = "read"
    /\ UNCHANGED <<heap, vals>>

\* The caller goes on to its next statement (unless the read faulted).
EltDone ==
    /\ pc = "read"
    /\ ~aux.crash
    /\ pc' = "idle"
    /\ UNCHANGED <<heap, vals, aux>>

\* Value::clear : an array Value drops its payload and stays array-typed.
EltClear ==
    /\ pc = "idle"
    /\ vals.w.ref # 0
    /\ vals' = [vals EXCEPT !.w = ValueApplyOp(heap, vals.w, [op |-> "clear", key |-> ""]).v]
    /\ UNCHANGED <<heap, pc, aux>>

NextElt == (\E i \in -1..(MaxArrayLen + 1) : EltRead(i)) \/ EltDone \/ EltClear

SpecElt == InitElt /\ [][NextElt]_vars

\* C10: Elt(i) with i < 0 or i >= NumElts() on an array Value (with or
\* without a payload) returns the null sentinel and reads nothing outside
\* the array.
C10_EltClamped ==
    (pc = "read" /\ vals.w.type = "array"
       /\ (aux.idx < 0 \/ aux.idx >= ValueNumElts(heap, vals.w)))
        => (aux.ret = kNullValue /\ ~aux.oob /\ ~aux.crash)

----------------------------------------------------------------------------
(* Config.cpp: template expansion                                          *)

\* Value::AsCString(0) : the string, "true"/"false" for a bool, else null.
ValueAsCString(v) ==
    IF v.type = "string" THEN [isnull |-> FALSE, s |-> v.str]
    ELSE IF v.type = "bool"
    THEN [isnull |-> FALSE, s |-> IF v.num = 1 THEN "true" ELSE "false"]
    ELSE [isnull |-> TRUE, s |-> ""]

\* The outcome of a composer step: the heap, whether it returned true, how
\* many errors it appended, and whether the recursion ran away (a directive
\* cycle never returns: the stack overflows).
Outcome(h, ok, errs, crash) == [h |-> h, ok |-> ok, errs |-> errs, crash |-> crash]

\* ApplyTemplatesInternal with the expansion of the template's own template
\* left out.
ApplyTemplatesFlat(h, o, it, fuel) ==
    With(h[o].map[it].second, LAMBDA target :
    With(IF target.type = "object"
         THEN ObjectMember(h, target.ref, "template") ELSE kNullValue, LAMBDA templateValue :
      IF templateValue.type = "null" THEN Outcome(h, TRUE, 0, FALSE)
      ELSE With(ObjectUpdateMemberPtr(h, o, ValueAsCString(templateValue).s), LAMBDA p :
           IF p.it = 0 THEN Outcome(h, FALSE, 1, FALSE)
           ELSE With(ObjectRemoveMember(p.h, target.ref, "template").h, LAMBDA h1 :
                With(ValueCopy(h1, h1[o].map[p.it].second), LAMBDA c :
                With(ValueMerge(c.h, c.v, target), LAMBDA m :
                With(ValueSwap(m.h, target, m.v), LAMBDA s :
                    Outcome([s.h EXCEPT ![o].map[it].second = s.a], TRUE, 0, FALSE))))))))

\* ApplyTemplatesInternal(objects, target, errors) : `objects` is the object
\* payload o and `target` its member at index it. fuel counts the members
\* of o still unvisited on the template chain: a chain longer than the
\* member count has come back to a member it started from and recurses
\* without end.
RECURSIVE ApplyTemplatesInternal(_, _, _, _)
ApplyTemplatesInternal(h, o, it, fuel) ==
    With(h[o].map[it].second, LAMBDA target :
    With(IF target.type = "object"
         THEN ObjectMember(h, target.ref, "template") ELSE kNullValue, LAMBDA templateValue :
      IF templateValue.type = "null" THEN Outcome(h, TRUE, 0, FALSE)
      ELSE With(ObjectUpdateMemberPtr(h, o, ValueAsCString(templateValue).s), LAMBDA p :
           IF p.it = 0 THEN Outcome(h, FALSE, 1, FALSE)
           ELSE IF fuel = 0 THEN Outcome(h, FALSE, 0, TRUE)
           ELSE With(ApplyTemplatesInternal(p.h, o, p.it, fuel - 1), LAMBDA r :
                IF r.crash \/ ~r.ok THEN r
                ELSE With(ObjectRemoveMember(r.h, target.ref, "template").h, LAMBDA h1 :
                     With(ValueCopy(h1, h1[o].map[p.it].second), LAMBDA c :
                     With(ValueMerge(c.h, c.v, target), LAMBDA m :
                     With(ValueSwap(m.h, target, m.v), LAMBDA s :
                         Outcome([s.h EXCEPT ![o].map[it].second = s.a],
                                 TRUE, 0, FALSE)))))))))

\* ApplyTemplates(objects, errors) : the first loop expands the object
\* members of an object, the second recurses into every member; an array
\* recurses into its elements. It never reassigns *objects.
RECURSIVE ApplyTemplates(_, _)
RECURSIVE ApplyTemplatesFirst(_, _, _)
RECURSIVE ApplyTemplatesSecond(_, _, _)
RECURSIVE ApplyTemplatesElts(_, _, _)
ApplyTemplatesFirst(h, o, n) ==
    IF n = 0 THEN Outcome(h, TRUE, 0, FALSE)
    ELSE With(ApplyTemplatesFirst(h, o, n - 1), LAMBDA acc :
         IF acc.crash \/ acc.h[o].map[n].second.type # "object" THEN acc
         ELSE With(ApplyTemplatesInternal(acc.h, o, n, Len(acc.h[o].map)), LAMBDA r :
                  Outcome(r.h, acc.ok /\ r.ok, acc.errs + r.errs, r.crash)))

ApplyTemplatesSecond(h, o, n) ==
    IF n = 0 THEN Outcome(h, TRUE, 0, FALSE)
    ELSE With(ApplyTemplatesSecond(h, o, n - 1), LAMBDA acc :
         IF acc.crash THEN acc
         ELSE With(ApplyTemplates(acc.h, acc.h[o].map[n].second), LAMBDA r :
                  Outcome(r.h, acc.ok /\ r.ok, acc.errs + r.errs, r.crash)))

ApplyTemplatesElts(h, a, n) ==
    IF n = 0 THEN Outcome(h, TRUE, 0, FALSE)
    ELSE With(ApplyTemplatesElts(h, a, n - 1), LAMBDA acc :
         IF acc.crash THEN acc
         ELSE With(ApplyTemplates(acc.h, acc.h[a].elts[n]), LAMBDA r :
                  Outcome(r.h, acc.ok /\ r.ok, acc.errs + r.errs, r.crash)))

ApplyTemplates(h, v) ==
    IF v.type = "object"
    THEN With(ApplyTemplatesFirst(h, v.ref, Len(h[v.ref].map)), LAMBDA f :
         IF f.crash THEN f
         ELSE With(ApplyTemplatesSecond(f.h, v.ref, Len(f.h[v.ref].map)), LAMBDA g :
                  Outcome(g.h, f.ok /\ g.ok, f.errs + g.errs, g.crash)))
    ELSE IF v.type = "array" /\ v.ref # 0
    THEN ApplyTemplatesElts(h, v.ref, Len(h[v.ref].elts))
    ELSE Outcome(h, TRUE, 0, FALSE)

----------------------------------------------------------------------------
(* Config.cpp: import expansion                                            *)

\* A file on disk: missing, present but rejected by the loader ("bad"), or
\* present with the document the loader reads from it.
File(st, doc) == [st |-> st, doc |-> doc]

\* PathFileExists
PathFileExists(fs, path) == path \in DOMAIN fs /\ fs[path].st # "missing"

\* The outcome of an import step, which also hands back the Value it wrote.
OutcomeV(h, v, ok, errs, crash) == [h |-> h, v |-> v, ok |-> ok, errs |-> errs, crash |-> crash]

\* The end of AddImports with the Swap left out: the import overrides the
\* object's own members.
ImportComposeNoSwap(h, value, importValue) ==
    ValueMerge(ObjectRemoveMember(h, value.ref, "import").h, value, importValue)

\* The end of AddImports:
\*   value->RemoveMember("import"); value->Swap(importValue); value->Merge(importValue);
ImportCompose(h, value, importValue) ==
    With(ValueSwap(ObjectRemoveMember(h, value.ref, "import").h, value, importValue),
         LAMBDA s : ValueMerge(s.h, s.a, s.b))

RECURSIVE AddImports(_, _, _, _)
RECURSIVE AddImportsMembers(_, _, _, _, _)
RECURSIVE AddImportsElts(_, _, _, _, _)
RECURSIVE AddImportsList(_, _, _, _, _)
RECURSIVE LoadImport(_, _, _, _)

\* LoadImport(importPathValue, loader, basePath, value, errors, info) with
\* info->mVariant empty: the loaded and import-expanded document, or a
\* failure with its error. fuel counts the files not yet on the import
\* chain: a chain longer than the number of files imports a file from
\* inside itself and recurses without end.
LoadImport(h, importPathValue, fs, fuel) ==
    With(ValueAsCString(importPathValue), LAMBDA path :
        IF path.isnull THEN OutcomeV(h, kNullValue, FALSE, 1, FALSE)
        ELSE IF ~PathFileExists(fs, path.s) THEN OutcomeV(h, kNullValue, FALSE, 1, FALSE)
        ELSE IF fs[path.s].st = "bad" THEN OutcomeV(h, kNullValue, FALSE, 1, FALSE)
        ELSE IF fuel = 0 THEN OutcomeV(h, kNullValue, FALSE, 0, TRUE)
        ELSE With(Build(h, fs[path.s].doc), LAMBDA b :
                 AddImports(b.h, b.v, fs, fuel - 1)))

\* AddImports, first loop: the first n members of the object, in place.
AddImportsMembers(h, o, n, fs, fuel) ==
    IF n = 0 THEN Outcome(h, TRUE, 0, FALSE)
    ELSE With(AddImportsMembers(h, o, n - 1, fs, fuel), LAMBDA acc :
         IF acc.crash THEN acc
         ELSE With(AddImports(acc.h, acc.h[o].map[n].second, fs, fuel), LAMBDA r :
                  Outcome([r.h EXCEPT ![o].map[n].second = r.v],
                          acc.ok /\ r.ok, acc.errs + r.errs, r.crash)))

\* AddImports on an array: the first n elements, in place.
AddImportsElts(h, a, n, fs, fuel) ==
    IF n = 0 THEN Outcome(h, TRUE, 0, FALSE)
    ELSE With(AddImportsElts(h, a, n - 1, fs, fuel), LAMBDA acc :
         IF acc.crash THEN acc
         ELSE With(AddImports(acc.h, acc.h[a].elts[n], fs, fuel), LAMBDA r :
                  Outcome([r.h EXCEPT ![a].elts[n] = r.v],
                          acc.ok /\ r.ok, acc.errs + r.errs, r.crash)))

\* AddImports, the loop over an array of import paths, after its first n
\* paths: each loaded document is merged into importValue (v); a failed one
\* clears `success` and the loop goes on. `one` is oneSuccess.
AddImportsList(h, a, n, fs, fuel) ==
    IF n = 0
    THEN [h |-> h, v |-> kNullValue, one |-> FALSE, ok |-> TRUE, errs |-> 0, crash |-> FALSE]
    ELSE With(AddImportsList(h, a, n - 1, fs, fuel), LAMBDA acc :
         IF acc.crash THEN acc
         ELSE With(LoadImport(acc.h, acc.h[a].elts[n], fs, fuel), LAMBDA l :
              IF l.crash \/ ~l.ok
              THEN [acc EXCEPT !.h = l.h, !.ok = FALSE, !.errs = @ + l.errs,
                               !.crash = l.crash]
              ELSE With(ValueMerge(l.h, acc.v, l.v), LAMBDA m :
                       [acc EXCEPT !.h = m.h, !.v = m.v, !.one = TRUE,
                                   !.errs = @ + l.errs])))

\* AddImports(loader, basePath, value, errors, info). The result of the
\* members' loop is overwritten by `success = true` (array of paths) or by
\* `success = LoadImport(...)` (one path).
AddImports(h, v, fs, fuel) ==
    IF v.type = "array" /\ v.ref # 0
    THEN With(AddImportsElts(h, v.ref, Len(h[v.ref].elts), fs, fuel), LAMBDA r :
             OutcomeV(r.h, v, r.ok, r.errs, r.crash))
    ELSE IF v.type # "object" THEN OutcomeV(h, v, TRUE, 0, FALSE)
    ELSE With(AddImportsMembers(h, v.ref, Len(h[v.ref].map), fs, fuel), LAMBDA c :
         With(ObjectMember(c.h, v.ref, "import"), LAMBDA importValues :
           IF c.crash THEN OutcomeV(c.h, v, FALSE, c.errs, TRUE)
           ELSE IF importValues.type = "null" THEN OutcomeV(c.h, v, c.ok, c.errs, FALSE)
           ELSE With(IF importValues.type = "array"
                     THEN AddImportsList(c.h, importValues.ref,
                                         Len(c.h[importValues.ref].elts), fs, fuel)
                     ELSE With(LoadImport(c.h, importValues, fs, fuel), LAMBDA s :
                              [h |-> s.h, v |-> s.v, one |-> s.ok, ok |-> s.ok,
                               errs |-> s.errs, crash |-> s.crash]), LAMBDA l :
                IF l.crash THEN OutcomeV(l.h, v, FALSE, c.errs + l.errs, TRUE)
                ELSE With(IF l.one THEN ImportCompose(l.h, v, l.v)
                          ELSE [h |-> l.h, v |-> v], LAMBDA r :
                         OutcomeV(r.h, r.v, l.ok, c.errs + l.errs, FALSE)))))

----------------------------------------------------------------------------
(* LoadConfig: load the main file, expand imports, expand templates.       *)

\* Longest array of import paths in the main file.
MaxImportList == 2

\* Members of the main object in the template documents.
MaxTemplateMembers == 3

\* The import paths used: f1 and f2 may exist, f3 never does.
FileNames == {"f1", "f2"}

ImportPaths == {TStr("f1"), TStr("f2"), TStr("f3")}

ImportVals ==
    {TAbsent, TNull, TInt(5)} \cup ImportPaths \cup
    UNION { { TArr(es) : es \in [1..n -> ImportPaths] } : n \in 0..MaxImportList }

\* Main documents with imports:  { a: ..., import: ..., sub: ... }
ImportDocs ==
    { TObj(KidOrNone("a", ta) \o KidOrNone("import", ti) \o KidOrNone("sub", ts)) :
        ta \in {TAbsent, TInt(1), TNull, TObj(Kid("p", TInt(1))),
                TObj(Kid("template", TStr("b")))},
        ti \in ImportVals,
        ts \in {TAbsent, TObj(Kid("import", TStr("f1"))), TObj(Kid("import", TStr("f3"))),
                TObj(Kid("b", TInt(1)) \o Kid("import", TStr("f2")))} }

F1Files ==
    {File("missing", TNull), File("bad", TNull),
     File("ok", TObj(Kid("a", TObj(Kid("p", TInt(2)) \o Kid("q", TInt(2)))) \o Kid("b", TInt(2)))),
     File("ok", TObj(Kid("a", TInt(5)) \o Kid("import", TStr("f2")))),
     File("ok", TObj(Kid("import", TStr("f1")))),
     File("ok", TInt(7))}

F2Files ==
    {File("missing", TNull),
     File("ok", TObj(Kid("a", TObj(Kid("q", TInt(3)))) \o Kid("b", TNull))),
     File("ok", TObj(Kid("import", TStr("f1")) \o Kid("q", TInt(1))))}

\* Values of a member of a template document.
TemplateVals ==
    {TAbsent, TInt(1),
     TObj(Kid("p", TInt(1))),
     TObj(Kid("q", TInt(2)) \o Kid("template", TNull)),
     TObj(Kid("template", TStr("a"))),
     TObj(Kid("p", TInt(3)) \o Kid("template", TStr("b"))),
     TObj(Kid("q", TNull) \o Kid("template", TStr("t"))),
     TObj(Kid("template", TStr("q"))),
     TObj(Kid("a", TObj(Kid("template", TStr("b")))) \o Kid("b", TObj(Kid("p", TInt(4))))),
     TArr(<<TObj(Kid("a", TObj(Kid("template", TStr("q")))))>>)}

TemplateKeys == << "a", "b", "t", "u" >>

RECURSIVE KidsFrom(_, _, _)
KidsFrom(f, i, n) ==
    IF i > n THEN <<>> ELSE KidOrNone(TemplateKeys[i], f[i]) \o KidsFrom(f, i + 1, n)

\* Main documents with templates:  { a: ..., b: ..., t: ... }
TemplateDocs ==
    LET n == IF MaxTemplateMembers < Len(TemplateKeys)
             THEN MaxTemplateMembers ELSE Len(TemplateKeys)
    IN  { TObj(KidsFrom(f, 1, n)) : f \in [1..n -> TemplateVals] }

NoFiles == [f \in FileNames |-> File("missing", TNull)]

InitConfig ==
    /\ heap = <<>>
    /\ vals = [config |-> kNullValue]
    /\ pc = "start"
    /\ \E m \in [st : {"ok"}, doc : ImportDocs \cup TemplateDocs]
                  \cup {File("missing", TNull), File("bad", TNull)} :
       \E fs \in IF m.st = "ok" /\ m.doc \in ImportDocs
                 THEN [f1 : F1Files, f2 : F2Files] ELSE {NoFiles} :
          aux = [main |-> m, fs |-> fs, success |-> FALSE, errs |-> 0, idx |-> 0,
                 prev |-> TNull, stepKey |-> "", stepOk |-> FALSE, ret |-> FALSE]

\* LoadConfigInternal: success = loader(path, config, errors, st). A file
\* the loader rejects leaves an error and (taken here) a null config.
LoadMain ==
    /\ pc = "start"
    /\ IF aux.main.st = "ok"
       THEN With(Build(heap, aux.main.doc), LAMBDA b :
                /\ heap' = b.h
                /\ vals' = [vals EXCEPT !.config = b.v]
                /\ aux' = [aux EXCEPT !.success = TRUE])
       ELSE /\ aux' = [aux EXCEPT !.success = FALSE, !.errs = @ + 1]
            /\ UNCHANGED <<heap, vals>>
    /\ pc' = "loaded"

\* LoadConfigInternal: if (success) success = AddImports(loader, ..., config, ...)
ImportStep ==
    /\ pc = "loaded"
    /\ IF aux.success
       THEN With(AddImports(heap, vals.config, aux.fs, Cardinality(FileNames)), LAMBDA r :
                /\ heap' = r.h
                /\ vals' = [vals EXCEPT !.config = r.v]
                /\ aux' = [aux EXCEPT !.success = r.ok, !.errs = @ + r.errs, !.idx = 1]
                /\ pc' = IF r.crash THEN "crashed" ELSE "imported")
       ELSE /\ aux' = [aux EXCEPT !.idx = 1]
            /\ pc' = "imported"
            /\ UNCHANGED <<heap, vals>>

\* ApplyTemplates(config), first loop, one member of the config object:
\*   if (member.value.IsObject() && !ApplyTemplatesInternal(...)) success = false;
\* A false result ends as `success = false` in LoadConfigInternal.
TemplateStep ==
    /\ pc = "imported"
    /\ vals.config.type = "object"
    /\ aux.idx <= Len(heap[vals.config.ref].map)
    /\ With(IF heap[vals.config.ref].map[aux.idx].second.type = "object"
            THEN ApplyTemplatesInternal(heap, vals.config.ref, aux.idx,
                                        Len(heap[vals.config.ref].map))
            ELSE Outcome(heap, TRUE, 0, FALSE), LAMBDA r :
           /\ heap' = r.h
           /\ aux' = [aux EXCEPT !.idx = @ + 1, !.errs = @ + r.errs,
                                 !.prev = Snapshot(heap, vals.config),
                                 !.stepKey = heap[vals.config.ref].map[aux.idx].first,
                                 !.stepOk = r.ok,
                                 !.success = @ /\ r.ok]
           /\ pc' = IF r.crash THEN "crashed" ELSE "imported")
    /\ UNCHANGED vals

\* ApplyTemplates(config), the rest: the second loop over the members, or
\* the loop over the elements of an array config.
TemplateRecurse ==
    /\ pc = "imported"
    /\ vals.config.type = "object" => aux.idx > Len(heap[vals.config.ref].map)
    /\ With(IF vals.config.type = "object"
            THEN ApplyTemplatesSecond(heap, vals.config.ref,
                                      Len(heap[vals.config.ref].map))
            ELSE ApplyTemplates(heap, vals.config), LAMBDA r :
           /\ heap' = r.h
           /\ aux' = [aux EXCEPT !.errs = @ + r.errs, !.success = @ /\ r.ok,
                                 !.stepKey = ""]
           /\ pc' = IF r.crash THEN "crashed" ELSE "templated")
    /\ UNCHANGED vals

\* LoadConfigInternal: return success;
Return ==
    /\ pc = "templated"
    /\ aux' = [aux EXCEPT !.ret = aux.success]
    /\ pc' = "done"
    /\ UNCHANGED <<heap, vals>>

NextConfig == LoadMain \/ ImportStep \/ TemplateStep \/ TemplateRecurse \/ Return

SpecConfig == InitConfig /\ [][NextConfig]_vars

\* Value::Merge on trees, by the rule of C1.
TMerge(a, b) ==
    IF b.type = "null" THEN a
    ELSE IF a.type = "object" /\ b.type = "object"
    THEN TObj(SelectSeq([i \in 1..Len(KeyOrder) |->
                            [name |-> KeyOrder[i], value |-> MergedMember(a, b, KeyOrder[i])]],
                        LAMBDA kid : kid.value # TAbsent))
    ELSE b

\* The import rule on trees: members first; then the imports, merged in
\* listed order, form the base and the object without its `import` key
\* overrides. With keepEmpty an empty list of paths leaves the object alone.
RECURSIVE ExpandImportsTree(_, _, _, _)
RECURSIVE MergeImportsTree(_, _, _, _, _, _)
MergeImportsTree(paths, i, acc, fs, fuel, keepEmpty) ==
    IF i > Len(paths) THEN acc
    ELSE LET p == paths[i].value
             l == IF p.type = "string" /\ PathFileExists(fs, p.str) /\ fuel > 0
                  THEN ExpandImportsTree(fs[p.str].doc, fs, fuel - 1, keepEmpty)
                  ELSE TNull
         IN  MergeImportsTree(paths, i + 1, TMerge(acc, l), fs, fuel, keepEmpty)

ExpandImportsTree(t, fs, fuel, keepEmpty) ==
    IF t.type = "array"
    THEN [t EXCEPT !.kids = [i \in 1..Len(t.kids) |->
             [name |-> "", value |-> ExpandImportsTree(t.kids[i].value, fs, fuel, keepEmpty)]]]
    ELSE IF t.type # "object" THEN t
    ELSE LET own == TObj([i \in 1..Len(t.kids) |->
                       [name  |-> t.kids[i].name,
                        value |-> ExpandImportsTree(t.kids[i].value, fs, fuel, keepEmpty)]])
             imp == TMember(own, "import")
         IN  IF imp.type = "string"
             THEN TMerge(MergeImportsTree(Kid("", imp), 1, TNull, fs, fuel, keepEmpty),
                         TWithout(own, "import"))
             ELSE IF imp.type = "array" /\ ~(keepEmpty /\ imp.kids = <<>>)
             THEN TMerge(MergeImportsTree(imp.kids, 1, TNull, fs, fuel, keepEmpty),
                         TWithout(own, "import"))
             ELSE own

\* The main document names one path or an array of paths under `import`.
MainHasImport == aux.main.st = "ok" /\ TMember(aux.main.doc, "import").type \in {"string", "array"}

\* C3 (as stated): an object with an `import` member naming one path or an
\* array of paths, all of which load, becomes the imports merged in listed
\* order, overridden by its own members, without the `import` key.
C3_AsStated ==
    (pc = "imported" /\ aux.idx = 1 /\ MainHasImport /\ aux.errs = 0)
        => Snapshot(heap, vals.config)
             = ExpandImportsTree(aux.main.doc, aux.fs, Cardinality(FileNames) + 1, FALSE)

\* C3 (amended): the same for one path or a non-empty array of paths; an
\* empty array leaves the object as it is, `import` member included.
C3_ImportExpansion ==
    (pc = "imported" /\ aux.idx = 1 /\ MainHasImport /\ aux.errs = 0)
        => Snapshot(heap, vals.config)
             = ExpandImportsTree(aux.main.doc, aux.fs, Cardinality(FileNames) + 1, TRUE)

\* Two files imported in order, the second importing nothing the first has
\* not, with an own member overriding both.
C3_Witness ==
    /\ pc = "imported" /\ aux.idx = 1 /\ aux.errs = 0
    /\ TMember(aux.main.doc, "import") = TArr(<<TStr("f1"), TStr("f2")>>)
    /\ TMember(aux.main.doc, "a") = TObj(Kid("p", TInt(1)))
    /\ TMember(aux.fs.f1.doc, "a").type = "object"
    /\ TMember(Snapshot(heap, vals.config), "a")
         = TObj(Kid("p", TInt(1)) \o Kid("q", TInt(3)))
    /\ TMember(Snapshot(heap, vals.config), "import") = TAbsent

\* The template rule on trees: member k of the object tree obj, with the
\* template it names (and that one's own template, first) merged under it.
RECURSIVE ExpandTemplateTree(_, _, _)
ExpandTemplateTree(obj, k, fuel) ==
    LET m  == TMember(obj, k)
        tv == TMember(m, "template")
    IN  IF tv.type # "string" \/ fuel = 0 THEN m
        ELSE TMerge(ExpandTemplateTree(obj, tv.str, fuel - 1), TWithout(m, "template"))

\* The step just taken expanded member M = aux.stepKey, whose `template`
\* names a sibling.
TemplateCase ==
    /\ pc = "imported"
    /\ aux.stepKey # ""
    /\ TMember(aux.prev, aux.stepKey).type = "object"
    /\ TMember(TMember(aux.prev, aux.stepKey), "template").type = "string"
    /\ TMember(aux.prev, TMember(TMember(aux.prev, aux.stepKey), "template").str) # TAbsent

\* C4 (as stated): M becomes a copy of T's value (T's own template expanded
\* first) with M's own members merged on top, and has no `template` member.
\* Read with the expansion having succeeded.
C4_AsStated ==
    (TemplateCase /\ aux.stepOk) =>
        LET M == TMember(Snapshot(heap, vals.config), aux.stepKey)
            T == TMember(TMember(aux.prev, aux.stepKey), "template").str
        IN  /\ M = TMerge(ExpandTemplateTree(aux.prev, T, Len(aux.prev.kids)),
                          TWithout(TMember(aux.prev, aux.stepKey), "template"))
            /\ TMember(M, "template") = TAbsent

\* C4 (amended): when the expansion returns true, M becomes a copy of T's
\* value (T's own template expanded first, in place) with M's own members,
\* less its `template`, merged on top; M then has a `template` member only
\* if the expanded T has one, and that member is null.
C4_TemplateExpansion ==
    (TemplateCase /\ aux.stepOk) =>
        LET now == Snapshot(heap, vals.config)
            M   == TMember(now, aux.stepKey)
            T   == TMember(TMember(aux.prev, aux.stepKey), "template").str
            TX  == ExpandTemplateTree(aux.prev, T, Len(aux.prev.kids))
        IN  /\ M = TMerge(TX, TWithout(TMember(aux.prev, aux.stepKey), "template"))
            /\ TMember(now, T) = TX
            /\ TMember(M, "template") \in {TAbsent, TNull}
            /\ TMember(M, "template") = TNull <=> TMember(TX, "template") = TNull

\* A chain: M names T, T names a third member, and all three resolve.
C4_Witness ==
    /\ TemplateCase /\ aux.stepOk
    /\ aux.stepKey = "a"
    /\ TMember(aux.prev, "a") = TObj(Kid("p", TInt(3)) \o Kid("template", TStr("b")))
    /\ TMember(aux.prev, "b") = TObj(Kid("q", TNull) \o Kid("template", TStr("t")))
    /\ TMember(aux.prev, "t") = TObj(Kid("q", TInt(2)) \o Kid("template", TNull))
    /\ TMember(Snapshot(heap, vals.config), "a")
         = TObj(Kid("p", TInt(3)) \o Kid("template", TNull))

\* C5: LoadConfig returns false whenever an error occurred during the load.
C5_FalseOnError ==
    (pc = "done" /\ aux.errs > 0) => aux.ret = FALSE

----------------------------------------------------------------------------
(* YAML event binder (ValueYaml.cpp): YamlReader over the events of one    *)
(* document whose root is a block mapping. A node stands for the events of *)
(* one YAML node as the parser delivers them.                              *)

\* kind is "scalar", "seq", "map" or "alias". anchor is the anchor the start
\* event carries ("" for none) or, for an alias, the name it refers to.
\* kids are the items of a sequence (key "") or the pairs of a mapping.
YNode(kind, anchor, text, plain, kids) ==
    [kind |-> kind, anchor |-> anchor, text |-> text, plain |-> plain, kids |-> kids]

YScalar(anchor, text) == YNode("scalar", anchor, text, TRUE, <<>>)

YQuoted(text) == YNode("scalar", "", text, FALSE, <<>>)

YSeq(anchor, kids) == YNode("seq", anchor, "", TRUE, kids)

YMap(anchor, kids) == YNode("map", anchor, "", TRUE, kids)

YAlias(name) == YNode("alias", name, "", TRUE, <<>>)

YKid(key, node) == << [key |-> key, node |-> node] >>

\* Anchor names of the documents; the table entry of a name never anchored.
AnchorNames == {"x"}

NoAnchor == MkValue("absent", 0, "", 0)

\* strtol(numberStr, &last, 0) with last[0] == 0, on the texts of the model.
StrtolOk(text) == text \in {"1", "2"}

Strtol(text) == IF text = "1" THEN 1 ELSE 2

\* ParseScalar, YAML_SCALAR_EVENT: the Value of a scalar's text. A plain
\* scalar is null, a bool or a number where its text says so; everything
\* else is a string.
YamlScalarValue(text, plain) ==
    IF plain /\ text \in {"", "null", "~"} THEN kNullValue
    ELSE IF plain /\ text = "true" THEN BoolValue(TRUE)
    ELSE IF plain /\ text = "false" THEN BoolValue(FALSE)
    ELSE IF plain /\ StrtolOk(text) THEN IntValue(Strtol(text))
    ELSE StringValue(text)

\* CreateArrayValue(const Values&) : every element is copy-constructed into
\* a new payload.
RECURSIVE CopyValues(_, _, _)
CopyValues(h, values, n) ==
    IF n = 0 THEN [h |-> h, out |-> <<>>]
    ELSE With(CopyValues(h, values, n - 1), LAMBDA acc :
         With(ValueCopy(acc.h, values[n]), LAMBDA c :
             [h |-> c.h, out |-> Append(acc.out, c.v)]))

CreateArrayValue(h, values) ==
    With(CopyValues(h, values, Len(values)), LAMBDA c :
    With(Append(c.h, ArrayPayload(c.out)), LAMBDA nh :
        [h |-> nh, v |-> ArrayRef(Len(nh))]))

\* What a parse step leaves: the heap, mAnchors, the Value parsed into, and
\* the YamlResult ("crash" where the step dereferences a null pointer).
YamlOut(h, an, v, result) == [h |-> h, an |-> an, v |-> v, result |-> result]

\* ParseMapping, the `<<` branch over an array mergeValue: every object
\* element is merged, any other element clears `success`.
RECURSIVE MergeEach(_, _, _, _)
MergeEach(h, o, elts, n) ==
    IF n = 0 THEN [h |-> h, success |-> TRUE]
    ELSE With(MergeEach(h, o, elts, n - 1), LAMBDA acc :
         IF elts[n].type = "object"
         THEN [h |-> ObjectMerge(acc.h, o, elts[n].ref), success |-> acc.success]
         ELSE [h |-> acc.h, success |-> FALSE])

RECURSIVE ParseScalar(_, _, _, _)
RECURSIVE ParseSequence(_, _, _, _)
RECURSIVE ParseMapping(_, _, _, _, _)
RECURSIVE ParseMappingEntry(_, _, _, _, _)

\* YamlReader::ParseScalar(Value* scalar) on the events of one node.
\*  - sequence: the items are parsed into a local vector, which is assigned
\*    to *scalar; an anchor is bound to scalar->AsArrayPtr().
\*  - mapping: parsed into scalar->ToObjectPtr(), which is the object *scalar
\*    already holds, a new one if *scalar is null, and nullptr otherwise;
\*    an anchor is bound to scalar->AsObjectPtr().
\*  - alias: *scalar = it->second, or the error "unknown anchor".
\*  - scalar: *scalar is the typed scalar; an anchor is bound by
\*    `mAnchors[name] = scalar`, where scalar is the Value* itself: of the
\*    assignment operators only operator=(bool) takes a pointer.
ParseScalar(h, an, scalar, node) ==
    IF node.kind = "seq"
    THEN With(ParseSequence(h, an, node.kids, Len(node.kids)), LAMBDA s :
         With(CreateArrayValue(s.h, s.out), LAMBDA a :
             YamlOut(a.h,
                     IF node.anchor # "" THEN [s.an EXCEPT ![node.anchor] = a.v]
                     ELSE s.an,
                     a.v, s.result)))
    ELSE IF node.kind = "map"
    THEN With(ValueToObject(h, scalar), LAMBDA t :
         IF ~t.ok
         THEN YamlOut(h, an, scalar,
                      IF node.kids = <<>> /\ node.anchor = ""
                      THEN "kYamlOk" ELSE "crash")
         ELSE With(ParseMapping(t.h, an, t.v.ref, node.kids, Len(node.kids)), LAMBDA m :
                  YamlOut(m.h,
                          IF node.anchor # "" THEN [m.an EXCEPT ![node.anchor] = t.v]
                          ELSE m.an,
                          t.v, m.result)))
    ELSE IF node.kind = "alias"
    THEN IF an[node.anchor] # NoAnchor
         THEN With(ValueAssign(h, scalar, an[node.anchor]), LAMBDA a :
                  YamlOut(a.h, an, a.v, "kYamlOk"))
         ELSE YamlOut(h, an, scalar, "kYamlError")
    ELSE YamlOut(h,
                 IF node.anchor # "" THEN [an EXCEPT ![node.anchor] = BoolValue(TRUE)]
                 ELSE an,
                 YamlScalarValue(node.text, node.plain), "kYamlOk")

\* YamlReader::ParseSequence : the vector after the first n items; each item
\* is parsed into a local Value and pushed back (copied).
ParseSequence(h, an, items, n) ==
    IF n = 0 THEN [h |-> h, an |-> an, out |-> <<>>, result |-> "kYamlOk"]
    ELSE With(ParseSequence(h, an, items, n - 1), LAMBDA acc :
         IF acc.result # "kYamlOk" THEN acc
         ELSE With(ParseScalar(acc.h, acc.an, kNullValue, items[n].node), LAMBDA p :
              IF p.result # "kYamlOk"
              THEN [h |-> p.h, an |-> p.an, out |-> acc.out, result |-> p.result]
              ELSE With(ValueCopy(p.h, p.v), LAMBDA c :
                       [h |-> c.h, an |-> p.an, out |-> Append(acc.out, c.v),
                        result |-> "kYamlOk"])))

\* YamlReader::ParseMapping, one turn of its loop, on the pair key: node.
\* `<<` parses the node into a local mergeValue and merges it (an object, or
\* the object elements of an array) into the mapping's object; any other
\* key parses the node into UpdateMember(key).
ParseMappingEntry(h, an, o, key, node) ==
    IF key = "<<"
    THEN With(ParseScalar(h, an, kNullValue, node), LAMBDA p :
         IF p.result # "kYamlOk" THEN [h |-> p.h, an |-> p.an, result |-> p.result]
         ELSE IF p.v.type = "object"
         THEN [h |-> ObjectMerge(p.h, o, p.v.ref), an |-> p.an, result |-> "kYamlOk"]
         ELSE IF p.v.type = "array" /\ p.v.ref # 0
         THEN With(MergeEach(p.h, o, p.h[p.v.ref].elts, Len(p.h[p.v.ref].elts)), LAMBDA m :
                  [h |-> m.h, an |-> p.an,
                   result |-> IF m.success THEN "kYamlOk" ELSE "kYamlError"])
         ELSE [h |-> p.h, an |-> p.an, result |-> "kYamlOk"])
    ELSE With(ObjectUpdateMember(h, o, key), LAMBDA u :
         With(ParseScalar(u.h, an, u.h[o].map[u.it].second, node), LAMBDA p :
             [h      |-> [p.h EXCEPT ![o].map[u.it].second = p.v],
              an     |-> p.an,
              result |-> p.result]))

\* YamlReader::ParseMapping : the first n pairs of a mapping, up to its
\* MAPPING-END or to the first pair that fails.
ParseMapping(h, an, o, entries, n) ==
    IF n = 0 THEN [h |-> h, an |-> an, result |-> "kYamlOk"]
    ELSE With(ParseMapping(h, an, o, entries, n - 1), LAMBDA acc :
         IF acc.result # "kYamlOk" THEN acc
         ELSE ParseMappingEntry(acc.h, acc.an, o, entries[n].key, entries[n].node))

\* Pairs in the root mapping of a document.
MaxEntries == 3

RootKeys == {"a", "b", "<<"}

\* The nodes a pair of the root mapping can have as its value:
\*    1   ~   &x 2   'true'   {a: 2}   &x {p: 1}   {a: {q: 2}}
\*    &x [1]   [*x]   *x
RootNodes ==
    { YScalar("", "1"), YScalar("", "~"), YScalar("x", "2"), YQuoted("true"),
      YMap("", YKid("a", YScalar("", "2"))),
      YMap("x", YKid("p", YScalar("", "1"))),
      YMap("", YKid("a", YMap("", YKid("q", YScalar("", "2"))))),
      YSeq("x", YKid("", YScalar("", "1"))),
      YSeq("", YKid("", YAlias("x"))),
      YAlias("x") }

\* HL::LoadYamlText up to the root MAPPING-START: value->MakeNull(), then
\* ParseScalar(value) reaches ParseMapping(value->ToObjectPtr()).
\* aux keeps what the last pair did: the root before it (prev), the pair,
\* its result, the Value its node was parsed into (parsed), and for the
\* anchor the Value that was anchored, as it was then (reg, regKind).
InitYaml ==
    /\ heap = << ObjectPayload(<<>>, 0) >>
    /\ vals = [value |-> ObjectRef(1), mAnchors |-> [n \in AnchorNames |-> NoAnchor]]
    /\ pc = "parsing"
    /\ aux = [count |-> 0, prev |-> TObj(<<>>), key |-> "", node |-> YAlias(""),
              result |-> "kYamlOk", parsed |-> TAbsent,
              reg |-> TAbsent, regKind |-> "none", badMerge |-> FALSE, ret |-> FALSE]

\* The tree of a Value that is neither a mapping nor a sequence of mappings.
NotMergeable(t) ==
    ~ \/ t.type = "object"
      \/ t.type = "array" /\ \A i \in 1..Len(t.kids) : t.kids[i].value.type = "object"

\* ParseMapping on the root object: the next pair of the document.
ParseMappingStep(key, node) ==
    /\ pc = "parsing"
    /\ aux.count < MaxEntries
    /\ With(ParseMappingEntry(heap, vals.mAnchors, vals.value.ref, key, node), LAMBDA r :
       With(IF key = "<<"
            THEN With(ParseScalar(heap, vals.mAnchors, kNullValue, node), LAMBDA p :
                     Snapshot(p.h, p.v))
            ELSE TMember(Snapshot(r.h, vals.value), key), LAMBDA parsed :
           /\ heap' = r.h
           /\ vals' = [vals EXCEPT !.mAnchors = r.an]
           /\ pc' = IF r.result = "kYamlOk" THEN "parsing"
                    ELSE IF r.result = "kYamlError" THEN "error" ELSE "crashed"
           /\ aux' = [aux EXCEPT
                  !.count = @ + 1,
                  !.prev = Snapshot(heap, vals.value),
                  !.key = key,
                  !.node = node,
                  !.result = r.result,
                  !.parsed = parsed,
                  !.reg = IF r.result = "kYamlOk" /\ node.anchor # ""
                             /\ node.kind # "alias"
                          THEN parsed ELSE @,
                  !.regKind = IF r.result = "kYamlOk" /\ node.anchor # ""
                                 /\ node.kind # "alias"
                              THEN (IF node.kind = "scalar" THEN "scalar"
                                    ELSE "collection")
                              ELSE @,
                  !.badMerge = @ \/ (key = "<<" /\ r.result # "crash"
                                     /\ NotMergeable(parsed))]))

\* ParseMapping on the root object: MAPPING-END, result = kYamlOk.
ParseMappingEnd ==
    /\ pc = "parsing"
    /\ pc' = "ended"
    /\ UNCHANGED <<heap, vals, aux>>

\* HL::LoadYamlText : return result != kYamlError.
LoadYamlTextReturn ==
    /\ pc \in {"ended", "error"}
    /\ pc' = "done"
    /\ aux' = [aux EXCEPT !.ret = (pc # "error")]
    /\ UNCHANGED <<heap, vals>>

NextYaml ==
    \/ \E key \in RootKeys, node \in RootNodes : ParseMappingStep(key, node)
    \/ ParseMappingEnd
    \/ LoadYamlTextReturn

SpecYaml == InitYaml /\ [][NextYaml]_vars

\* The member names of an object tree.
TKeys(t) == { t.kids[i].name : i \in 1..Len(t.kids) }

\* The keys of the mapping(s) a `<<` value holds.
MergedKeys(t) ==
    IF t.type = "object" THEN TKeys(t)
    ELSE IF t.type = "array"
    THEN UNION { TKeys(t.kids[i].value) :
                    i \in { j \in 1..Len(t.kids) : t.kids[j].value.type = "object" } }
    ELSE {}

\* The last pair was `<<` and the binder took it.
MergeCase == aux.key = "<<" /\ aux.count > 0 /\ aux.result = "kYamlOk"

\* C6: after a `<<` pair of a mapping, every key the object already had
\* keeps the value it had, and the keys the object gains are keys of the
\* merged mapping(s).
C6_ExistingKeysWin ==
    MergeCase =>
        LET now == Snapshot(heap, vals.value)
        IN  /\ \A k \in TKeys(aux.prev) : TMember(now, k) = TMember(aux.prev, k)
            /\ TKeys(now) \ TKeys(aux.prev) \subseteq MergedKeys(aux.parsed)

\* The last pair was  key: *x  and the binder took it.
AliasCase ==
    /\ aux.count > 0 /\ aux.key # "<<" /\ aux.result = "kYamlOk"
    /\ aux.node.kind = "alias"

\* C7: an alias of an anchored sequence or mapping yields a Value equal to
\* the anchored Value as it was when the anchor was registered, whatever
\* was parsed in between.
C7_AliasOfCollection ==
    (AliasCase /\ aux.regKind = "collection") =>
        TMember(Snapshot(heap, vals.value), aux.key) = aux.reg

\* C8: an anchor on a scalar binds the name to the Value of that scalar, and
\* a later alias yields a Value of the same type and payload.
C8_AnchoredScalar ==
    /\ (/\ aux.count > 0 /\ aux.result = "kYamlOk" /\ aux.key # "<<"
        /\ aux.node.kind = "scalar" /\ aux.node.anchor # "")
         => Snapshot(heap, vals.mAnchors[aux.node.anchor])
              = TMember(Snapshot(heap, vals.value), aux.key)
    /\ (AliasCase /\ aux.regKind = "scalar")
         => TMember(Snapshot(heap, vals.value), aux.key) = aux.reg

\* C9: a document with a `<<` whose value is neither a mapping nor a
\* sequence of mappings fails to load: LoadYamlText returns false.
C9_NonMappingMergeFails ==
    (pc = "done" /\ aux.badMerge) => aux.ret = FALSE

----------------------------------------------------------------------------
(* Member operations of a Value, whatever its type, and the operations     *)
(* that replace the contents of an object-typed Value.                     *)

\* Value::Member
ValueMember(h, v, key) ==
    IF v.type = "object" THEN ObjectMember(h, v.ref, key) ELSE kNullValue

\* Value::HasMember
ValueHasMember(h, v, key) ==
    IF v.type = "object" THEN ObjectHasMember(h, v.ref, key) ELSE FALSE

\* Value::RemoveMember
ValueRemoveMember(h, v, key) ==
    IF v.type = "object"
    THEN With(ObjectRemoveMember(h, v.ref, key), LAMBDA r :
             [h |-> r.h, v |-> v, ret |-> r.ok])
    ELSE [h |-> h, v |-> v, ret |-> FALSE]

\* A SetMember that makes the Value an object first, whatever it held.
ValueSetMemberForce(h, v, key, x) ==
    With(IF v.type = "object" THEN h ELSE Append(h, ObjectPayload(<<>>, 0)), LAMBDA nh :
    With(IF v.type = "object" THEN v.ref ELSE Len(nh), LAMBDA o :
        [h |-> ObjectSetMember(nh, o, key, x), v |-> ObjectRef(o)]))

\* Value::SetMember : if (ToObject()) mObject->SetMember(key, v);
ValueSetMember(h, v, key, x) ==
    With(ValueToObject(h, v), LAMBDA t :
        IF t.ok THEN [h |-> ObjectSetMember(t.h, t.v.ref, key, x), v |-> t.v]
        ELSE [h |-> h, v |-> v])

\* Value::UpdateMember : the member found or inserted, or kNullValueScratch
\* after kNullValueScratch.MakeNull(). `ref` says where the returned Value&
\* points: into the member map of payload o at index it, or at the scratch.
ValueUpdateMember(h, v, scratch, key) ==
    With(ValueToObject(h, v), LAMBDA t :
        IF t.ok
        THEN With(ObjectUpdateMember(t.h, t.v.ref, key), LAMBDA u :
                 [h |-> u.h, v |-> t.v, scratch |-> scratch,
                  ref |-> [kind |-> "member", o |-> t.v.ref, it |-> u.it]])
        ELSE [h |-> h, v |-> v, scratch |-> kNullValue,
              ref |-> [kind |-> "scratch", o |-> 0, it |-> 0]])

\* Value::MakeObject : MakeNull(), then a new empty ObjectValue.
ValueMakeObject(h) ==
    With(Append(h, ObjectPayload(<<>>, 0)), LAMBDA nh :
        [h |-> nh, v |-> ObjectRef(Len(nh))])

\* Value::operator=(const ObjectValue&) : MakeObject() = object, the implicit
\* ObjectValue assignment: the member map is copied and so is mModCount.
ValueAssignObject(h, o) ==
    With(ValueMakeObject(h), LAMBDA m :
    With(CopyMembers(m.h, m.h[o].map, Len(m.h[o].map)), LAMBDA c :
        [h |-> [c.h EXCEPT ![m.v.ref].map = c.out,
                           ![m.v.ref].modCount = c.h[o].modCount],
         v |-> m.v]))

\* Statements run against w.
MaxOps == 2

\* w before the statements, o (an object, the operand of Merge, Swap and the
\* assignments), and what an earlier caller left in kNullValueScratch.
MemberW == {TNull, TInt(1), TStr("s"), TArr(<<TInt(1)>>), TArrNoPayload,
            TObj(<<>>), TObj(Kid("a", TInt(1)))}

MemberO == {TObj(<<>>), TObj(Kid("a", TInt(2))), TObj(Kid("b", TNull))}

MemberKeys == {"a", "b"}

InitMember ==
    \E tw \in MemberW, to \in MemberO, sc \in {kNullValue, IntValue(7)} :
        With(Build(<<>>, tw), LAMBDA bw :
        With(Build(bw.h, to), LAMBDA bo :
            /\ heap = bo.h
            /\ vals = [w |-> bw.v, o |-> bo.v, scratch |-> sc]
            /\ pc = "idle"
            /\ aux = [n |-> 0, op |-> "", key |-> "", t0 |-> bw.v.type,
                      w0 |-> tw, mc0 |-> 0, retV |-> kNullValue, retB |-> FALSE,
                      ref |-> [kind |-> "none", o |-> 0, it |-> 0]]))

\* ModCount() of the payload of an object-typed Value (0 for any other).
ValueModCount(h, v) == IF v.type = "object" THEN h[v.ref].modCount ELSE 0

\* What every statement records before it runs.
MemberBefore(op, key) ==
    [aux EXCEPT !.n = @ + 1, !.op = op, !.key = key, !.t0 = vals.w.type,
                !.w0 = Snapshot(heap, vals.w), !.mc0 = ValueModCount(heap, vals.w),
                !.ref = [kind |-> "none", o |-> 0, it |-> 0]]

MemberReady == pc = "idle" /\ aux.n < MaxOps

\* w.Member(key)
DoMember(key) ==
    /\ MemberReady
    /\ aux' = [MemberBefore("Member", key) EXCEPT !.retV = ValueMember(heap, vals.w, key)]
    /\ UNCHANGED <<heap, vals, pc>>

\* w.HasMember(key)
DoHasMember(key) ==
    /\ MemberReady
    /\ aux' = [MemberBefore("HasMember", key) EXCEPT
                  !.retB = ValueHasMember(heap, vals.w, key)]
    /\ UNCHANGED <<heap, vals, pc>>

\* w.RemoveMember(key)
DoRemoveMember(key) ==
    /\ MemberReady
    /\ With(ValueRemoveMember(heap, vals.w, key), LAMBDA r :
           /\ heap' = r.h
           /\ vals' = [vals EXCEPT !.w = r.v]
           /\ aux' = [MemberBefore("RemoveMember", key) EXCEPT !.retB = r.ret])
    /\ UNCHANGED pc

\* w.SetMember(key, Value(2))
DoSetMember(key) ==
    /\ MemberReady
    /\ With(ValueSetMember(heap, vals.w, key, IntValue(2)), LAMBDA r :
           /\ heap' = r.h
           /\ vals' = [vals EXCEPT !.w = r.v]
           /\ aux' = MemberBefore("SetMember", key))
    /\ UNCHANGED pc

\* Value& r = w.UpdateMember(key) : retV is what r refers to as it is returned.
DoUpdateMember(key) ==
    /\ MemberReady
    /\ With(ValueUpdateMember(heap, vals.w, vals.scratch, key), LAMBDA r :
           /\ heap' = r.h
           /\ vals' = [vals EXCEPT !.w = r.v, !.scratch = r.scratch]
           /\ aux' = [MemberBefore("UpdateMember", key) EXCEPT
                         !.ref = r.ref,
                         !.retV = IF r.ref.kind = "scratch" THEN r.scratch
                                  ELSE r.h[r.ref.o].map[r.ref.it].second])
    /\ pc' = "ref"

\* r = 7 through the reference UpdateMember returned, or r goes out of scope.
RefWrite(write) ==
    /\ pc = "ref"
    /\ pc' = "idle"
    /\ IF ~write THEN UNCHANGED <<heap, vals>>
       ELSE IF aux.ref.kind = "scratch"
       THEN /\ vals' = [vals EXCEPT !.scratch = IntValue(7)]
            /\ UNCHANGED heap
       ELSE /\ heap' = [heap EXCEPT ![aux.ref.o].map[aux.ref.it].second = IntValue(7)]
            /\ UNCHANGED vals
    /\ UNCHANGED aux

\* w.clear()
DoClear ==
    /\ MemberReady
    /\ With(ValueApplyOp(heap, vals.w, [op |-> "clear", key |-> ""]), LAMBDA r :
           /\ heap' = r.h
           /\ vals' = [vals EXCEPT !.w = r.v]
           /\ aux' = MemberBefore("clear", ""))
    /\ UNCHANGED pc

\* w.Merge(o)
DoMergeO ==
    /\ MemberReady
    /\ With(ValueMerge(heap, vals.w, vals.o), LAMBDA r :
           /\ heap' = r.h
           /\ vals' = [vals EXCEPT !.w = r.v]
           /\ aux' = MemberBefore("Merge", ""))
    /\ UNCHANGED pc

\* w.Swap(o)
DoSwap ==
    /\ MemberReady
    /\ With(ValueSwap(heap, vals.w, vals.o), LAMBDA r :
           /\ heap' = r.h
           /\ vals' = [vals EXCEPT !.w = r.a, !.o = r.b]
           /\ aux' = MemberBefore("Swap", ""))
    /\ UNCHANGED pc

\* w = o  (operator=(const Value&))
DoAssign ==
    /\ MemberReady
    /\ With(ValueAssign(heap, vals.w, vals.o), LAMBDA r :
           /\ heap' = r.h
           /\ vals' = [vals EXCEPT !.w = r.v]
           /\ aux' = MemberBefore("Assign", ""))
    /\ UNCHANGED pc

\* w = o.AsObject()  (operator=(const ObjectValue&))
DoAssignObject ==
    /\ MemberReady
    /\ vals.o.type = "object"
    /\ With(ValueAssignObject(heap, vals.o.ref), LAMBDA r :
           /\ heap' = r.h
           /\ vals' = [vals EXCEPT !.w = r.v]
           /\ aux' = MemberBefore("AssignObject", ""))
    /\ UNCHANGED pc

NextMember ==
    \/ \E key \in MemberKeys : DoMember(key)
    \/ \E key \in MemberKeys : DoHasMember(key)
    \/ \E key \in MemberKeys : DoRemoveMember(key)
    \/ \E key \in MemberKeys : DoSetMember(key)
    \/ \E key \in MemberKeys : DoUpdateMember(key)
    \/ \E write \in BOOLEAN : RefWrite(write)
    \/ DoClear
    \/ DoMergeO
    \/ DoSwap
    \/ DoAssign
    \/ DoAssignObject

SpecMember == InitMember /\ [][NextMember]_vars

\* The last statement was an object operation on a w that was neither null
\* nor an object.
WrongKindCase ==
    /\ aux.n > 0
    /\ aux.op \in {"Member", "HasMember", "RemoveMember", "SetMember", "UpdateMember"}
    /\ aux.t0 \notin {"null", "object"}

\* C11: an object operation on a Value that is neither null nor an object
\* leaves the Value as it was; Member returns the null sentinel, HasMember
\* and RemoveMember return false, and UpdateMember returns the scratch
\* Value, null as it is returned.
C11_WrongKindIsHarmless ==
    WrongKindCase =>
        /\ Snapshot(heap, vals.w) = aux.w0
        /\ aux.op = "Member" => aux.retV = kNullValue
        /\ aux.op \in {"HasMember", "RemoveMember"} => aux.retB = FALSE
        /\ aux.op = "UpdateMember" => aux.ref.kind = "scratch" /\ aux.retV = kNullValue

\* UpdateMember on a string, with the scratch left non-null by an earlier
\* caller and written through again afterwards.
C11_Witness ==
    /\ WrongKindCase
    /\ aux.n = 2 /\ aux.op = "UpdateMember" /\ aux.w0 = TStr("s")
    /\ pc = "idle" /\ vals.scratch = IntValue(7)

\* C12: while w stays object-typed its modCount never goes down, and a
\* statement that changes its set of members, swaps it or assigns another
\* object to it leaves the modCount strictly greater.
C12_ModCountMonotonic ==
    (aux.n > 0 /\ aux.t0 = "object" /\ vals.w.type = "object") =>
        /\ ValueModCount(heap, vals.w) >= aux.mc0
        /\ (\/ TKeys(Snapshot(heap, vals.w)) # TKeys(aux.w0)
            \/ aux.op \in {"Swap", "Assign", "AssignObject"})
             => ValueModCount(heap, vals.w) > aux.mc0

----------------------------------------------------------------------------
(* Shared arrays: b is a copy of the array Value a, so both hold the same  *)
(* ArrayValue; statements then run against b.                              *)

\* Elements of a, and statements run against b.
MaxShareLen == 2

MaxShareOps == 2

ShareElts ==
    { TInt(1),
      TObj(Kid("t", TObj(Kid("p", TInt(1)))) \o Kid("u", TObj(Kid("template", TStr("t"))))),
      TObj(Kid("import", TStr("f1"))),
      TObj(Kid("q", TInt(1))) }

\* The files an import in b can name.
ShareFiles == [f \in FileNames |->
                  IF f = "f1" THEN File("ok", TObj(Kid("a", TInt(5))))
                  ELSE File("missing", TNull)]

\* Value a = [...];  Value b(a);
InitShare ==
    \E n \in 1..MaxShareLen : \E es \in [1..n -> ShareElts] :
        With(Build(<<>>, TArr(es)), LAMBDA ba :
        With(ValueCopy(ba.h, ba.v), LAMBDA c :
            /\ heap = c.h
            /\ vals = [a |-> ba.v, b |-> c.v]
            /\ pc = "shared"
            /\ aux = [a0 |-> TArr(es), n |-> 0, op |-> ""]))

ShareReady == pc = "shared" /\ aux.n < MaxShareOps

\* b.Elt(i) = 2  or  b.Elt(i).SetMember("a", Value(2)), with i in range.
ShareElt(i, op) ==
    /\ ShareReady
    /\ vals.b.type = "array" /\ i < ValueNumElts(heap, vals.b)
    /\ With(ValueApplyAt(heap, vals.b, << [step |-> "elt", key |-> "", idx |-> i] >>, 1, op),
            LAMBDA r :
           /\ heap' = r.h
           /\ vals' = [vals EXCEPT !.b = r.v]
           /\ aux' = [aux EXCEPT !.n = @ + 1, !.op = "Elt"])
    /\ UNCHANGED pc

\* b.Merge(x) for an object x.
ShareMerge ==
    /\ ShareReady
    /\ With(Build(heap, TObj(Kid("a", TInt(3)))), LAMBDA x :
       With(ValueMerge(x.h, vals.b, x.v), LAMBDA r :
           /\ heap' = r.h
           /\ vals' = [vals EXCEPT !.b = r.v]
           /\ aux' = [aux EXCEPT !.n = @ + 1, !.op = "Merge"]))
    /\ UNCHANGED pc

\* ApplyTemplates(&b, &errors)
ShareTemplates ==
    /\ ShareReady
    /\ With(ApplyTemplates(heap, vals.b), LAMBDA r :
           /\ heap' = r.h
           /\ pc' = IF r.crash THEN "crashed" ELSE "shared"
           /\ aux' = [aux EXCEPT !.n = @ + 1, !.op = "ApplyTemplates"])
    /\ UNCHANGED vals

\* AddImports(&b, &info)
ShareImports ==
    /\ ShareReady
    /\ With(AddImports(heap, vals.b, ShareFiles, Cardinality(FileNames)), LAMBDA r :
           /\ heap' = r.h
           /\ vals' = [vals EXCEPT !.b = r.v]
           /\ pc' = IF r.crash THEN "crashed" ELSE "shared"
           /\ aux' = [aux EXCEPT !.n = @ + 1, !.op = "AddImports"])

NextShare ==
    \/ \E i \in 0..(MaxShareLen - 1) :
         \E op \in {[op |-> "assign", key |-> ""], [op |-> "set", key |-> "a"]} :
            ShareElt(i, op)
    \/ ShareMerge
    \/ ShareTemplates
    \/ ShareImports

SpecShare == InitShare /\ [][NextShare]_vars

\* C13: an array payload is never modified: whatever is done through b, the
\* elements observed through a, which shares b's array, stay as they were.
C13_SharedArrayImmutable ==
    Snapshot(heap, vals.a) = aux.a0

----------------------------------------------------------------------------
(* Who holds a payload: the Values of a program are its named Values (the  *)
(* roots) and the members and elements stored in the payloads they reach.  *)

\* The payload a Value points to, if any.
ValueRefs(v) == IF v.type \in {"object", "array"} /\ v.ref # 0 THEN {v.ref} ELSE {}

\* The payloads the members or elements of payload p point to.
PayloadRefs(h, p) ==
    UNION ({ ValueRefs(h[p].map[i].second) : i \in 1..Len(h[p].map) }
           \cup { ValueRefs(h[p].elts[i]) : i \in 1..Len(h[p].elts) })

\* The payloads reached from the set S in at most k steps.
RECURSIVE ReachFrom(_, _, _)
ReachFrom(h, S, k) ==
    IF k = 0 THEN S
    ELSE ReachFrom(h, S \cup UNION { PayloadRefs(h, p) : p \in S }, k - 1)

\* How many Values hold the object payload o: roots, and members and
\* elements of the payloads alive from the roots.
ObjectHolders(h, roots, o) ==
    LET live == ReachFrom(h, UNION { ValueRefs(roots[i]) : i \in 1..Len(roots) }, Len(h))
    IN  Cardinality({ i \in 1..Len(roots) : roots[i] = ObjectRef(o) })
        + Cardinality({ s \in live \X (1..Len(h) + 2) :
                          \/ /\ s[2] <= Len(h[s[1]].map)
                             /\ h[s[1]].map[s[2]].second = ObjectRef(o)
                          \/ /\ s[2] <= Len(h[s[1]].elts)
                             /\ h[s[1]].elts[s[2]] = ObjectRef(o) })

\* C14: between the pairs of a YAML load, and after it, no object payload is
\* held by more than one Value (the document under construction and the
\* anchor table are the Values alive).
C14_ObjectsNotShared ==
    \A o \in 1..Len(heap) :
        heap[o].kind = "object" =>
            ObjectHolders(heap, << vals.value, vals.mAnchors["x"] >>, o) <= 1

----------------------------------------------------------------------------
(* Numeric coercions (Value::IsConvertibleTo, Value::AsBool .. AsDouble).  *)
(* The integer types are modelled at reduced widths, int32_t/uint32_t at   *)
(* Bits32 bits and int64_t/uint64_t at Bits64 bits, and double with a      *)
(* significand of MantissaBits bits, which like the real one holds every   *)
(* 32-bit integer and not every 64-bit one. Numbers are counted in halves, *)
(* so that a double with a fraction is an integer here: the int 3 is 6,    *)
(* the double 1.5 is 3. The num of a "double" Value is already in halves.  *)

Bits32 == 4

Bits64 == 8

MantissaBits == 6

RECURSIVE Pow2(_)
Pow2(n) == IF n = 0 THEN 1 ELSE 2 * Pow2(n - 1)

INT32_MAX == Pow2(Bits32 - 1) - 1

INT32_MIN == 0 - Pow2(Bits32 - 1)

UINT32_MAX == Pow2(Bits32) - 1

INT64_MAX == Pow2(Bits64 - 1) - 1

INT64_MIN == 0 - Pow2(Bits64 - 1)

UINT64_MAX == Pow2(Bits64) - 1

UIntValue(n) == MkValue("uint", n, "", 0)

Int64Value(n) == MkValue("int64", n, "", 0)

UInt64Value(n) == MkValue("uint64", n, "", 0)

\* d2 is twice the double.
DoubleValue(d2) == MkValue("double", d2, "", 0)

\* The number of bits of n > 0.
RECURSIVE BitLen(_)
BitLen(n) == IF n = 0 THEN 0 ELSE 1 + BitLen(n \div 2)

\* The conversion of the integer n to double, in halves: exact while n fits
\* the significand, otherwise rounded to the nearest multiple of the last
\* place (ties to even).
ToDouble(n) ==
    LET a    == IF n < 0 THEN 0 - n ELSE n
        ulp  == IF BitLen(a) <= MantissaBits THEN 1 ELSE Pow2(BitLen(a) - MantissaBits)
        q    == a \div ulp
        r    == a % ulp
        up   == 2 * r > ulp \/ (2 * r = ulp /\ q % 2 = 1)
        m    == (IF up THEN q + 1 ELSE q) * ulp
    IN  2 * (IF n < 0 THEN 0 - m ELSE m)

\* (unsigned) n : the conversion of an integer constant to unsigned int.
ToUnsigned(n) == n % Pow2(Bits32)

\* The integer part of the double d2 (truncation toward zero).
Trunc(d2) == IF d2 >= 0 THEN d2 \div 2 ELSE 0 - ((0 - d2) \div 2)

\* A floating to integer cast, T(d): the truncated value if T can hold it;
\* otherwise the behaviour is undefined, and the builds in use give either
\* the lowest or the highest value of T.
CastDouble(d2, lo, hi) ==
    IF lo <= Trunc(d2) /\ Trunc(d2) <= hi THEN {Trunc(d2)} ELSE {lo, hi}

\* The result of an As function: the values it may return (in halves) and
\* whether it is the defaultValue that is returned.
Returns(outs) == [outs |-> { 2 * n : n \in outs }, dflt |-> FALSE]

ReturnsDefault == [outs |-> {0}, dflt |-> TRUE]

\* Value::IsConvertibleTo(ValueType other)
IsConvertibleTo(v, other) ==
    IF v.type = "null" THEN TRUE
    ELSE IF v.type = "bool"
    THEN other \in {"bool", "int", "uint", "int64", "uint64", "double"}
    ELSE IF v.type = "int"
    THEN \/ other \in {"bool", "int", "int64", "double"}
         \/ other = "uint" /\ v.num >= 0
         \/ other = "uint64" /\ v.num >= 0
    ELSE IF v.type = "uint"
    THEN \/ other \in {"bool", "uint", "int64", "uint64", "double"}
         \/ other = "int" /\ v.num <= ToUnsigned(INT32_MAX)
    ELSE IF v.type = "int64"
    THEN \/ other \in {"bool", "int64", "double"}
         \/ other = "int" /\ v.num >= INT32_MIN /\ v.num <= INT32_MAX
         \/ other = "uint" /\ v.num >= 0 /\ v.num <= UINT32_MAX
         \/ other = "uint64" /\ v.num >= 0
    ELSE IF v.type = "uint64"
    THEN \/ other \in {"bool", "uint64", "double"}
         \/ other = "int" /\ v.num <= ToUnsigned(INT32_MAX)
         \/ other = "uint" /\ v.num <= UINT32_MAX
         \/ other = "int64" /\ v.num <= ToUnsigned(INT64_MAX)
    ELSE IF v.type = "double"
    THEN \/ other \in {"bool", "double"}
         \/ other = "int" /\ v.num >= ToDouble(INT32_MIN) /\ v.num <= ToDouble(INT32_MAX)
         \/ other = "uint" /\ v.num >= 0 /\ v.num <= ToDouble(UINT32_MAX)
         \/ other = "int64" /\ v.num >= ToDouble(INT64_MIN) /\ v.num <= ToDouble(INT64_MAX)
         \/ other = "uint64" /\ v.num >= 0 /\ v.num <= ToDouble(UINT64_MAX)
    ELSE other \in {"bool", v.type}

\* Value::AsBool
ValueAsBool(v) ==
    IF v.type \in {"bool", "int", "uint", "int64", "uint64", "double"}
    THEN Returns({IF v.num # 0 THEN 1 ELSE 0})
    ELSE ReturnsDefault

\* Value::AsInt
ValueAsInt(v) ==
    IF v.type \in {"bool", "int"} THEN Returns({v.num})
    ELSE IF v.type \in {"uint", "uint64"}
    THEN Returns({IF v.num > INT32_MAX THEN INT32_MAX ELSE v.num})
    ELSE IF v.type = "int64"
    THEN Returns({IF v.num > INT32_MAX THEN INT32_MAX
                  ELSE IF v.num < INT32_MIN THEN INT32_MIN ELSE v.num})
    ELSE IF v.type = "double"
    THEN Returns(IF v.num < ToDouble(INT32_MIN) THEN {INT32_MIN}
                 ELSE IF v.num > ToDouble(INT32_MAX) THEN {INT32_MAX}
                 ELSE CastDouble(v.num, INT32_MIN, INT32_MAX))
    ELSE ReturnsDefault

\* Value::AsUInt
ValueAsUInt(v) ==
    IF v.type \in {"bool", "uint"} THEN Returns({v.num})
    ELSE IF v.type = "int" THEN Returns({IF v.num < 0 THEN 0 ELSE v.num})
    ELSE IF v.type = "int64"
    THEN Returns({IF v.num > UINT32_MAX THEN UINT32_MAX
                  ELSE IF v.num < 0 THEN 0 ELSE v.num})
    ELSE IF v.type = "uint64"
    THEN Returns({IF v.num > UINT32_MAX THEN UINT32_MAX ELSE v.num})
    ELSE IF v.type = "double"
    THEN Returns(IF v.num < 0 THEN {0}
                 ELSE IF v.num > ToDouble(UINT32_MAX) THEN {UINT32_MAX}
                 ELSE CastDouble(v.num, 0, UINT32_MAX))
    ELSE ReturnsDefault

\* Value::AsInt64
ValueAsInt64(v) ==
    IF v.type \in {"bool", "int", "uint", "int64"} THEN Returns({v.num})
    ELSE IF v.type = "uint64"
    THEN Returns({IF v.num > INT64_MAX THEN INT64_MAX ELSE v.num})
    ELSE IF v.type = "double"
    THEN Returns(IF v.num < ToDouble(INT64_MIN) THEN {INT64_MIN}
                 ELSE IF v.num > ToDouble(INT64_MAX) THEN {INT64_MAX}
                 ELSE CastDouble(v.num, INT64_MIN, INT64_MAX))
    ELSE ReturnsDefault

\* Value::AsUInt64
ValueAsUInt64(v) ==
    IF v.type \in {"bool", "uint", "uint64"} THEN Returns({v.num})
    ELSE IF v.type \in {"int", "int64"} THEN Returns({IF v.num < 0 THEN 0 ELSE v.num})
    ELSE IF v.type = "double"
    THEN Returns(IF v.num < 0 THEN {0}
                 ELSE IF v.num > ToDouble(UINT64_MAX) THEN {UINT64_MAX}
                 ELSE CastDouble(v.num, 0, UINT64_MAX))
    ELSE ReturnsDefault

\* Value::AsDouble
ValueAsDouble(v) ==
    IF v.type \in {"bool", "int", "uint", "int64", "uint64"}
    THEN [outs |-> {ToDouble(v.num)}, dflt |-> FALSE]
    ELSE IF v.type = "double" THEN [outs |-> {v.num}, dflt |-> FALSE]
    ELSE ReturnsDefault

\* As<K>
ValueAs(v, kind) ==
    IF kind = "bool" THEN ValueAsBool(v)
    ELSE IF kind = "int" THEN ValueAsInt(v)
    ELSE IF kind = "uint" THEN ValueAsUInt(v)
    ELSE IF kind = "int64" THEN ValueAsInt64(v)
    ELSE IF kind = "uint64" THEN ValueAsUInt64(v)
    ELSE ValueAsDouble(v)

\* The lowest and highest value of an integer kind.
KindMin(kind) ==
    IF kind = "int" THEN INT32_MIN ELSE IF kind = "int64" THEN INT64_MIN ELSE 0

KindMax(kind) ==
    IF kind = "int" THEN INT32_MAX ELSE IF kind = "uint" THEN UINT32_MAX
    ELSE IF kind = "int64" THEN INT64_MAX ELSE UINT64_MAX

\* Doubles of the model, in halves: the small ones with their halves, and
\* the ones at and beyond the ends of the 64-bit types.
Doubles ==
    (2 * (INT32_MIN - 2) .. 2 * (UINT32_MAX + 2))
    \cup { ToDouble(INT64_MIN), ToDouble(INT64_MIN) - 2 * Pow2(Bits64 - MantissaBits),
           ToDouble(INT64_MAX), ToDouble(UINT64_MAX),
           ToDouble(UINT64_MAX) + 2 * Pow2(Bits64 - MantissaBits + 1) }

NumValues ==
    {kNullValue, BoolValue(FALSE), BoolValue(TRUE)}
    \cup { IntValue(n) : n \in INT32_MIN..INT32_MAX }
    \cup { UIntValue(n) : n \in 0..UINT32_MAX }
    \cup { Int64Value(n) : n \in INT64_MIN..INT64_MAX }
    \cup { UInt64Value(n) : n \in 0..UINT64_MAX }
    \cup { DoubleValue(d) : d \in Doubles }

NumKinds == {"bool", "int", "uint", "int64", "uint64", "double"}

\* The number a Value holds, in halves (null holds none).
NumberOf(v) == IF v.type = "double" THEN v.num ELSE 2 * v.num

InitNum ==
    /\ heap = <<>>
    /\ \E v \in NumValues : vals = [v |-> v]
    /\ pc = "have"
    /\ aux = [kind |-> "", conv |-> FALSE, res |-> 0, dflt |-> FALSE]

\* c = v.IsConvertibleTo(K);  r = v.As<K>();
Coerce(kind) ==
    /\ pc = "have"
    /\ \E r \in ValueAs(vals.v, kind).outs :
          aux' = [kind |-> kind, conv |-> IsConvertibleTo(vals.v, kind),
                  res |-> r, dflt |-> ValueAs(vals.v, kind).dflt]
    /\ pc' = "coerced"
    /\ UNCHANGED <<heap, vals>>

\* The caller goes on to its next query.
CoerceDone ==
    /\ pc = "coerced"
    /\ pc' = "have"
    /\ aux' = [kind |-> "", conv |-> FALSE, res |-> 0, dflt |-> FALSE]
    /\ UNCHANGED <<heap, vals>>

NextNum == (\E kind \in NumKinds : Coerce(kind)) \/ CoerceDone

SpecNum == InitNum /\ [][NextNum]_vars

\* C15: IsConvertibleTo(K) is true exactly when As<K> returns the Value's
\* own number: not the default, not a saturated or otherwise changed one.
C15_ConvertibleIffUnchanged ==
    pc = "coerced" =>
        (aux.conv <=> (/\ ~aux.dflt
                       /\ vals.v.type # "null"
                       /\ aux.res = NumberOf(vals.v)))

\* C16: an integer coercion of a number above the destination's maximum
\* returns that maximum, and of a number below its minimum that minimum.
C16_Saturates ==
    (/\ pc = "coerced"
     /\ aux.kind \in {"int", "uint", "int64", "uint64"}
     /\ vals.v.type # "null") =>
        /\ NumberOf(vals.v) > 2 * KindMax(aux.kind) => aux.res = 2 * KindMax(aux.kind)
        /\ NumberOf(vals.v) < 2 * KindMin(aux.kind) => aux.res = 2 * KindMin(aux.kind)

----------------------------------------------------------------------------
(* Value::Compare.                                                         *)

\* enum ValueType, in its order.
ValueTypes ==
    << "null", "bool", "int", "uint", "int64", "uint64", "double", "string", "array",
       "object" >>

TypeRank(t) == CHOOSE i \in 1..Len(ValueTypes) : ValueTypes[i] = t

\* The double Value NaN (its str says so; no number is kept).
kNaN == MkValue("double", 0, "nan", 0)

TDouble(d2) == Tree("double", d2, "", <<>>)

TNaN == Tree("double", 0, "nan", <<>>)

IsNaN(v) == v.type = "double" /\ v.str = "nan"

\* CompareT(a, b) on the scalars of two Values of one type: a < b and a > b
\* are both false when either is a NaN.
CompareT(a, b) ==
    IF IsNaN(a) \/ IsNaN(b) THEN 0
    ELSE IF a.num < b.num THEN 0 - 1
    ELSE IF a.num > b.num THEN 1
    ELSE 0

\* HL::Compare(const char*, const char*) and strcmp: the difference of the
\* first characters that differ, of which the model keeps the sign.
StrCompare(s0, s1) ==
    IF KeyRank(s0) < KeyRank(s1) THEN 0 - 1 ELSE IF KeyRank(s0) > KeyRank(s1) THEN 1 ELSE 0

RECURSIVE ValueCompare(_, _, _)
RECURSIVE ArrayCompareFrom(_, _, _, _)
RECURSIVE ObjectCompareFrom(_, _, _, _)
\* The loop of ArrayValue::Compare from index i on.
ArrayCompareFrom(h, e1, e2, i) ==
    IF i > Len(e1) THEN 0
    ELSE With(ValueCompare(h, e1[i], e2[i]), LAMBDA eltCompare :
             IF eltCompare # 0 THEN eltCompare
             ELSE ArrayCompareFrom(h, e1, e2, i + 1))

\* The loop of ObjectValue::Compare from index i on.
ObjectCompareFrom(h, m1, m2, i) ==
    IF i > Len(m1) THEN 0
    ELSE With(StrCompare(m1[i].first, m2[i].first), LAMBDA keyCompare :
             IF keyCompare # 0 THEN keyCompare
             ELSE With(ValueCompare(h, m1[i].second, m2[i].second), LAMBDA valueCompare :
                      IF valueCompare # 0 THEN valueCompare
                      ELSE ObjectCompareFrom(h, m1, m2, i + 1)))

\* ArrayValue::Compare
ArrayCompare(h, a1, a2) ==
    IF Len(h[a1].elts) # Len(h[a2].elts)
    THEN IF Len(h[a1].elts) < Len(h[a2].elts) THEN 0 - 1 ELSE 1
    ELSE ArrayCompareFrom(h, h[a1].elts, h[a2].elts, 1)

\* ObjectValue::Compare
ObjectCompare(h, o1, o2) ==
    IF Len(h[o1].map) # Len(h[o2].map)
    THEN IF Len(h[o1].map) < Len(h[o2].map) THEN 0 - 1 ELSE 1
    ELSE ObjectCompareFrom(h, h[o1].map, h[o2].map, 1)

\* Value::Compare
ValueCompare(h, a, b) ==
    IF a.type # b.type
    THEN IF TypeRank(a.type) < TypeRank(b.type) THEN 0 - 1 ELSE 1
    ELSE IF a.type = "null" THEN 0
    ELSE IF a.type \in {"bool", "int", "uint", "int64", "uint64", "double"}
    THEN CompareT(a, b)
    ELSE IF a.type = "string" THEN StrCompare(a.str, b.str)
    ELSE IF a.type = "array"
    THEN IF a.ref # 0 /\ b.ref # 0 THEN ArrayCompare(h, a.ref, b.ref)
         ELSE IF a.ref = 0 /\ b.ref # 0 THEN 0 - 1
         ELSE IF a.ref # 0 /\ b.ref = 0 THEN 1
         ELSE 0
    ELSE ObjectCompare(h, a.ref, b.ref)

\* The Values compared.
CompareTrees ==
    { TNull, TBool(FALSE), TBool(TRUE), TInt(1), TInt(2), TDouble(1), TDouble(2), TNaN,
      TStr("a"), TStr("b"),
      TArrNoPayload, TArr(<<>>), TArr(<< TInt(1) >>), TArr(<< TInt(2) >>),
      TArr(<< TNaN >>),
      TObj(<<>>), TObj(Kid("a", TInt(1))), TObj(Kid("a", TInt(2))),
      TObj(Kid("b", TInt(1))), TObj(Kid("a", TInt(1)) \o Kid("b", TInt(1))) }

CompareNames == {"a", "b", "c"}

InitCompare ==
    /\ \E ta \in CompareTrees, tb \in CompareTrees, tc \in CompareTrees :
          With(Build(<<>>, ta), LAMBDA ba :
          With(Build(ba.h, tb), LAMBDA bb :
          With(Build(bb.h, tc), LAMBDA bc :
              /\ heap = bc.h
              /\ vals = [a |-> ba.v, b |-> bb.v, c |-> bc.v])))
    /\ pc = "have"
    /\ aux = [cmp |-> [x \in CompareNames |-> [y \in CompareNames |-> 0]]]

\* r = x.Compare(y) for each pair of a, b and c.
DoCompare ==
    /\ pc = "have"
    /\ aux' = [cmp |-> [x \in CompareNames |-> [y \in CompareNames |->
                          ValueCompare(heap, vals[x], vals[y])]]]
    /\ pc' = "compared"
    /\ UNCHANGED <<heap, vals>>

NextCompare == DoCompare

SpecCompare == InitCompare /\ [][NextCompare]_vars

Sign(n) == IF n < 0 THEN 0 - 1 ELSE IF n > 0 THEN 1 ELSE 0

\* C17: Compare is a total order keyed by (type, payload): Compare(a,b) and
\* Compare(b,a) have opposite signs, Compare(a,b) = 0 only for Values of one
\* type with equal payloads, and Compare(a,b) <= 0 with Compare(b,c) <= 0
\* gives Compare(a,c) <= 0.
C17_CompareTotalOrder ==
    pc = "compared" =>
        /\ Sign(aux.cmp["a"]["b"]) = 0 - Sign(aux.cmp["b"]["a"])
        /\ aux.cmp["a"]["b"] = 0 => Snapshot(heap, vals.a) = Snapshot(heap, vals.b)
        /\ (aux.cmp["a"]["b"] <= 0 /\ aux.cmp["b"]["c"] <= 0) => aux.cmp["a"]["c"] <= 0

----------------------------------------------------------------------------
(* HL::ApplySettings.                                                      *)
(* The text of a setting is a sequence of pieces: each of the characters   *)
(* the code looks for ('.', '=', ':', ' ', and the first character of a    *)
(* value) is a piece of its own, a run of other characters is one piece.   *)

\* The text the pieces spell.
RECURSIVE Join(_)
Join(text) == IF text = <<>> THEN "" ELSE Head(text) \o Join(Tail(text))

\* strchr(text, c) : the index of the first c, 0 if there is none.
StrChr(text, c) ==
    IF \E i \in 1..Len(text) : text[i] = c
    THEN CHOOSE i \in 1..Len(text) : text[i] = c /\ \A j \in 1..(i - 1) : text[j] # c
    ELSE 0

\* HL::Split(line, sep) : the strtok_r tokens, that is the non-empty runs of
\* characters between separators.
RECURSIVE Split(_, _)
Split(text, sep) ==
    IF text = <<>> THEN <<>>
    ELSE IF Head(text) = sep THEN Split(Tail(text), sep)
    ELSE With(StrChr(text, sep), LAMBDA at :
             IF at = 0 THEN << Join(text) >>
             ELSE << Join(SubSeq(text, 1, at - 1)) >>
                      \o Split(SubSeq(text, at + 1, Len(text)), sep))

\* while (*memberValueStr == ' ') memberValueStr++;
RECURSIVE SkipSpaces(_)
SkipSpaces(text) ==
    IF text # <<>> /\ Head(text) = " " THEN SkipSpaces(Tail(text)) ELSE text

\* A Value* : the caller's config, a member slot of an object, or
\* kNullValueScratch.
PtrRoot == [kind |-> "root", o |-> 0, it |-> 0]

PtrGet(st, p) ==
    IF p.kind = "root" THEN st.config
    ELSE IF p.kind = "scratch" THEN st.scratch
    ELSE st.h[p.o].map[p.it].second

PtrSet(st, p, v) ==
    IF p.kind = "root" THEN [st EXCEPT !.config = v]
    ELSE IF p.kind = "scratch" THEN [st EXCEPT !.scratch = v]
    ELSE [st EXCEPT !.h[p.o].map[p.it].second = v]

\* v = &v->UpdateMember(memberName)
PtrUpdateMember(st, p, memberName) ==
    With(ValueUpdateMember(st.h, PtrGet(st, p), st.scratch, memberName), LAMBDA u :
        IF u.ref.kind = "scratch"
        THEN [st |-> [st EXCEPT !.scratch = kNullValue], p |-> u.ref]
        ELSE [st |-> PtrSet([st EXCEPT !.h = u.h], p, u.v), p |-> u.ref])

\* for (const char* memberName : members) v = &v->UpdateMember(memberName);
RECURSIVE WalkMembers(_, _, _)
WalkMembers(st, members, n) ==
    IF n = 0 THEN [st |-> st, p |-> PtrRoot]
    ELSE With(WalkMembers(st, members, n - 1), LAMBDA acc :
             PtrUpdateMember(acc.st, acc.p, members[n]))

\* The test that leaves a value text as it is: it starts with one of [{-"
\* or a digit (or is empty, strchr finding the terminator), or it is null,
\* true or false.
LooksLikeJson(text) ==
    \/ text = <<>>
    \/ Head(text) \in {"[", "{", "-", "\"", "0", "1", "2", "3", "4", "5", "6", "7", "8", "9"}
    \/ Join(text) \in {"null", "true", "false"}

\* LoadJsonText on the texts of the model.
LoadJsonText(str) ==
    IF str = "null" THEN [ok |-> TRUE, t |-> TNull]
    ELSE IF str = "true" THEN [ok |-> TRUE, t |-> TBool(TRUE)]
    ELSE IF str = "5" THEN [ok |-> TRUE, t |-> TInt(5)]
    ELSE IF str = "\"x\"" THEN [ok |-> TRUE, t |-> TStr("x")]
    ELSE IF str = "{\"b\":5}" THEN [ok |-> TRUE, t |-> TObj(Kid("b", TInt(5)))]
    ELSE [ok |-> FALSE, t |-> TNull]

\* *v = memberValue
PtrAssign(st, p, t) ==
    With(Build(st.h, t), LAMBDA b :
    With(ValueAssign(b.h, PtrGet([st EXCEPT !.h = b.h], p), b.v), LAMBDA a :
        PtrSet([st EXCEPT !.h = a.h], p, a.v)))

\* One pass of the loop of ApplySettings, for the setting `text`.
ApplySetting(st, text) ==
    LET at      == IF StrChr(text, "=") # 0 THEN StrChr(text, "=") ELSE StrChr(text, ":")
        name    == IF at = 0 THEN text ELSE SubSeq(text, 1, at - 1)
        raw     == IF at = 0 THEN <<>> ELSE SkipSpaces(SubSeq(text, at + 1, Len(text)))
        members == Split(name, ".")
        str     == IF LooksLikeJson(raw) THEN Join(raw) ELSE "\"" \o Join(raw) \o "\""
    IN  With(WalkMembers(st, members, Len(members)), LAMBDA w :
            IF at = 0 THEN [st |-> PtrSet(w.st, w.p, BoolValue(TRUE)), ok |-> TRUE]
            ELSE IF str # "" /\ ~LoadJsonText(str).ok THEN [st |-> w.st, ok |-> FALSE]
            ELSE [st |-> PtrAssign(w.st, w.p, IF str = "" THEN TNull ELSE LoadJsonText(str).t),
                  ok |-> TRUE])

\* HL::ApplySettings : the first n settings.
RECURSIVE ApplySettings(_, _, _)
ApplySettings(st, settings, n) ==
    IF n = 0 THEN [st |-> st, ok |-> TRUE]
    ELSE With(ApplySettings(st, settings, n - 1), LAMBDA acc :
             IF ~acc.ok THEN acc ELSE ApplySetting(acc.st, settings[n].text))

MaxSettings == 2

\* A step of a path expression: a member name, or an index (name "").
PathKey(k) == [name |-> k, index |-> 0]

PathIndex(i) == [name |-> "", index |-> i]

\* The settings the caller passes: the text, and what the text means as
\* <path>[=<value>] : the path as dot-separated names, the path as a path
\* expression, and the value.
Setting(text, names, path, value) ==
    [text |-> text, names |-> names, path |-> path, value |-> value]

Settings ==
    { Setting(<< "a", "=", "5" >>, << "a" >>, << PathKey("a") >>, TInt(5)),
      Setting(<< "a" >>, << "a" >>, << PathKey("a") >>, TBool(TRUE)),
      Setting(<< "b", "=", " ", "x" >>, << "b" >>, << PathKey("b") >>, TStr("x")),
      Setting(<< "a", "=", "{", "\"b\":5}" >>, << "a" >>, << PathKey("a") >>,
              TObj(Kid("b", TInt(5)))),
      Setting(<< "a", ".", "b", "=", "null" >>, << "a", "b" >>,
              << PathKey("a"), PathKey("b") >>, TNull),
      Setting(<< "a", ".", "b", "=", "true" >>, << "a", "b" >>,
              << PathKey("a"), PathKey("b") >>, TBool(TRUE)),
      Setting(<< "a", ".", "b", ".", "a", "=", "5" >>, << "a", "b", "a" >>,
              << PathKey("a"), PathKey("b"), PathKey("a") >>, TInt(5)),
      Setting(<< "b", "=", "{" >>, << "b" >>, << PathKey("b") >>, TNull),
      Setting(<< "a[0]", ".", "b", "=", "5" >>, << "a[0]", "b" >>,
              << PathKey("a"), PathIndex(0), PathKey("b") >>, TInt(5)) }

\* The configs the settings are applied to.
SettingConfigs ==
    { TNull, TObj(<<>>), TObj(Kid("a", TInt(1))), TObj(Kid("a", TObj(Kid("b", TInt(1))))),
      TObj(Kid("a", TArr(<< TObj(<<>>) >>))) }

SettingLists ==
    UNION { [1..n -> Settings] : n \in 1..MaxSettings }

InitSettings ==
    /\ \E t \in SettingConfigs :
          With(Build(<<>>, t), LAMBDA b :
              /\ heap = b.h
              /\ vals = [config |-> b.v, scratch |-> kNullValue])
    /\ pc = "idle"
    /\ aux = [settings |-> <<>>, config0 |-> TNull, ret |-> FALSE]

\* ret = ApplySettings(numSettings, settings, &config, &errors);
DoApplySettings ==
    /\ pc = "idle"
    /\ \E settings \in SettingLists :
          With(ApplySettings([h |-> heap, config |-> vals.config, scratch |-> vals.scratch],
                             settings, Len(settings)), LAMBDA r :
              /\ heap' = r.st.h
              /\ vals' = [config |-> r.st.config, scratch |-> r.st.scratch]
              /\ aux' = [settings |-> settings, config0 |-> Snapshot(heap, vals.config),
                         ret |-> r.ok])
    /\ pc' = "done"

NextSettings == DoApplySettings

SpecSettings == InitSettings /\ [][NextSettings]_vars

IsPrefix(p, q) == Len(p) <= Len(q) /\ SubSeq(q, 1, Len(p)) = p

\* Setting i is overwritten by a later one: a later setting assigns to the
\* same path, to a path above it or to a path below it.
Overwritten(settings, i) ==
    \E j \in (i + 1)..Len(settings) :
        \/ IsPrefix(settings[j].names, settings[i].names)
        \/ IsPrefix(settings[i].names, settings[j].names)

\* The tree reached from t by the member names.
RECURSIVE TFollowNames(_, _)
TFollowNames(t, names) ==
    IF names = <<>> THEN t ELSE TFollowNames(TMember(t, Head(names)), Tail(names))

\* C18: when ApplySettings returns true, every setting that no later setting
\* overwrites is found in the config: following its dot-separated path from
\* the root reaches a member with the parsed value (true without a value).
C18_SettingsApplied ==
    (pc = "done" /\ aux.ret) =>
        \A i \in 1..Len(aux.settings) :
            ~Overwritten(aux.settings, i) =>
                TFollowNames(Snapshot(heap, vals.config), aux.settings[i].names)
                    = aux.settings[i].value

\* The tree reached from t by a path expression: names and array indices.
RECURSIVE TFollowPath(_, _)
TFollowPath(t, path) ==
    IF path = <<>> THEN t
    ELSE IF Head(path).name # "" THEN TFollowPath(TMember(t, Head(path).name), Tail(path))
    ELSE IF t.type = "array" /\ Head(path).index < Len(t.kids)
    THEN TFollowPath(t.kids[Head(path).index + 1].value, Tail(path))
    ELSE TAbsent

\* The path has bracketed indices, and in t each of them selects an element
\* of an array that is there.
IndexedIn(t, path) ==
    /\ \E k \in 1..Len(path) : path[k].name = ""
    /\ \A k \in 1..Len(path) :
          path[k].name = "" => TFollowPath(t, SubSeq(path, 1, k)) # TAbsent

\* C19: a setting whose member part is a path expression with a bracketed
\* index, such as a[0].b=5 where a is an array with an element 0, assigns
\* the value to that member of that element.
C19_BracketedPathApplied ==
    (pc = "done" /\ aux.ret) =>
        \A i \in 1..Len(aux.settings) :
            (/\ ~Overwritten(aux.settings, i)
             /\ IndexedIn(aux.config0, aux.settings[i].path)
             /\ IndexedIn(Snapshot(heap, vals.config), aux.settings[i].path)) =>
                TFollowPath(Snapshot(heap, vals.config), aux.settings[i].path)
                    = aux.settings[i].value

----------------------------------------------------------------------------
(* Template expansion applied twice.                                       *)

InitTwice ==
    /\ \E t \in TemplateDocs :
          With(Build(<<>>, t), LAMBDA b :
              /\ heap = b.h
              /\ vals = [config |-> b.v]
              /\ aux = [doc |-> t, once |-> TNull, ok1 |-> FALSE, ok2 |-> FALSE,
                        crash2 |-> FALSE])
    /\ pc = "loaded"

\* ok1 = ApplyTemplates(&config, errors);
ApplyOnce ==
    /\ pc = "loaded"
    /\ With(ApplyTemplates(heap, vals.config), LAMBDA r :
           /\ heap' = r.h
           /\ aux' = [aux EXCEPT !.ok1 = r.ok, !.once = Snapshot(r.h, vals.config)]
           /\ pc' = IF r.crash THEN "crashed" ELSE "once")
    /\ UNCHANGED vals

\* ok2 = ApplyTemplates(&config, errors);  after a first call that returned
\* true.
ApplyAgain ==
    /\ pc = "once"
    /\ aux.ok1
    /\ With(ApplyTemplates(heap, vals.config), LAMBDA r :
           /\ heap' = r.h
           /\ aux' = [aux EXCEPT !.ok2 = r.ok, !.crash2 = r.crash])
    /\ pc' = "twice"
    /\ UNCHANGED vals

NextTwice == ApplyOnce \/ ApplyAgain

SpecTwice == InitTwice /\ [][NextTwice]_vars

\* C20: template expansion is idempotent: a second application to a tree
\* on which the first one succeeded returns and leaves the tree equal to
\* what the first one left.
C20_TemplatesIdempotent ==
    pc = "twice" =>
        /\ ~aux.crash2
        /\ Snapshot(heap, vals.config) = aux.once

\* A chain a -> b -> t has been expanded, and then expanded again.
C20_Witness ==
    /\ pc = "twice"
    /\ aux.doc = TObj(Kid("a", TObj(Kid("p", TInt(3)) \o Kid("template", TStr("b"))))
                      \o Kid("b", TObj(Kid("q", TNull) \o Kid("template", TStr("t"))))
                      \o Kid("t", TObj(Kid("q", TInt(2)) \o Kid("template", TNull))))
    /\ aux.once # aux.doc
    /\ TMember(aux.once, "a") = TObj(Kid("p", TInt(3)) \o Kid("template", TNull))

\* ---------------------------------------------------------------------------
\* libyaml scanner (src/unnamed/part_000): yaml_parser_fetch_more_tokens and
\* the token fetchers.
\*
\* The input text is a sequence of lexemes separated by white space.  A lexeme
\* records its kind, whether a line break precedes it (nl) and the number of
\* spaces before it on its line (sp).  The reader position is the yaml_mark_t
\* (index, line, column) the code keeps; `pos' counts the lexemes consumed and
\* `ws' tells how much of the white space before the next lexeme was consumed
\* already: "none", the line "break" (yaml_parser_scan_directive), or "all"
\* (yaml_parser_scan_to_next_token, yaml_parser_scan_plain_scalar).
\* ---------------------------------------------------------------------------

MaxKeyLength == 1024

Lx(kind, nl, sp) == [kind |-> kind, nl |-> nl, sp |-> sp, a |-> "", b |-> ""]

LxAB(kind, nl, sp, a, b) == [kind |-> kind, nl |-> nl, sp |-> sp, a |-> a, b |-> b]

\* Number of characters of a lexeme on its last line.  "plain" is a one
\* character plain scalar, "long" a plain scalar one character longer than a
\* simple key may be, "quoted2" a double quoted scalar "x<break> y" that spans
\* a line break.
LxWidth(lx) ==
    CASE lx.kind = "long" -> MaxKeyLength + 1
      [] lx.kind = "quoted2" -> 3
      [] lx.kind \in {"docstart", "docend"} -> 3
      [] lx.kind \in {"anchor", "alias"} -> 2
      [] lx.kind = "tag" -> Len(lx.a) + Len(lx.b)
      [] lx.kind = "tagdirective" -> 6 + Len(lx.a) + Len(lx.b)
      [] lx.kind = "yamldirective" -> 6 + Len(lx.a)
      [] lx.kind = "plain" /\ lx.a # "" -> Len(lx.a)
      [] OTHER -> 1

Mark0 == [index |-> 0, line |-> 0, column |-> 0]

\* SKIP over the characters of a lexeme.
MarkOver(m, lx) ==
    IF lx.kind = "quoted2"
    THEN [index |-> m.index + 6, line |-> m.line + 1, column |-> LxWidth(lx)]
    ELSE [index |-> m.index + LxWidth(lx), line |-> m.line,
          column |-> m.column + LxWidth(lx)]

\* SKIP / SKIP_LINE over the white space in front of a lexeme.
MarkBefore(m, lx) ==
    IF lx.nl
    THEN [index |-> m.index + 1 + lx.sp, line |-> m.line + 1, column |-> lx.sp]
    ELSE [index |-> m.index + lx.sp, line |-> m.line, column |-> m.column + lx.sp]

Tok(type, mark) ==
    [type |-> type, mark |-> mark, a |-> "", b |-> "", simple |-> FALSE]

NoSimpleKey ==
    [possible |-> FALSE, required |-> FALSE, token_number |-> 0, mark |-> Mark0]

\* The handle and suffix of the TAG token of the node being parsed
\* (tag_handle, tag_suffix of yaml_parser_parse_node).
NoTagToken == [tagged |-> FALSE, handle |-> "", suffix |-> ""]

\* yaml_parser_initialize: the zeroed parser structure, reading `input'.
NewParser(input) ==
    [input |-> input, pos |-> 0, ws |-> "none", leading_blanks |-> FALSE,
     mark |-> Mark0,
     error |-> "",
     stream_start_produced |-> FALSE, stream_end_produced |-> FALSE,
     flow_level |-> 0, tokens |-> << >>, tokens_parsed |-> 0,
     token_available |-> FALSE, indents |-> << >>, indent |-> 0,
     simple_key_allowed |-> FALSE, simple_keys |-> << >>,
     state |-> "STREAM_START", states |-> << >>, marks |-> << >>,
     empty_pop |-> FALSE, tag_directives |-> << >>,
     underflow |-> FALSE, taken |-> << >>, event |-> [type |-> "NO_EVENT"],
     own_directives |-> << >>, tag_token |-> NoTagToken,
     budget |-> 0, blocked |-> FALSE]

AtEnd(s) == s.pos = Len(s.input)

NextLx(s) == s.input[s.pos + 1]

SetError(s, problem) == [s EXCEPT !.error = problem]

Failed(s) == s.error # ""

\* Run step K on the parser unless an earlier step has failed.  Here and
\* below, a bound variable of a one element set stands for a parser that is
\* computed once and used several times.
Then(s, K(_)) ==
    CHOOSE r \in {IF Failed(t) THEN t ELSE K(t) : t \in {s}} : TRUE

ENQUEUE(s, token) == [s EXCEPT !.tokens = Append(@, token)]

QUEUE_INSERT(s, index, token) ==
    [s EXCEPT !.tokens = SubSeq(@, 1, index) \o << token >>
                           \o SubSeq(@, index + 1, Len(@))]

SetTop(seq, x) == [seq EXCEPT ![Len(seq)] = x]

\* A candidate goes stale on a line break only.
StaleKeyByLine(s, key) == key.possible /\ key.mark.line < s.mark.line

StaleKey(s, key) ==
    /\ key.possible
    /\ \/ key.mark.line < s.mark.line
       \/ key.mark.index + MaxKeyLength < s.mark.index

RECURSIVE StaleFrom(_, _)
StaleFrom(s, i) ==
    CHOOSE r \in
      {IF i > Len(t.simple_keys) THEN t
       ELSE IF StaleKey(t, t.simple_keys[i])
       THEN IF t.simple_keys[i].required
            THEN SetError(t, "could not find expected ':'")
            ELSE StaleFrom([t EXCEPT !.simple_keys[i].possible = FALSE], i + 1)
       ELSE StaleFrom(t, i + 1) :
       t \in {s}} : TRUE

yaml_parser_stale_simple_keys(s) == StaleFrom(s, 1)

yaml_parser_remove_simple_key(s) ==
    LET key == s.simple_keys[Len(s.simple_keys)]
    IN IF key.possible /\ key.required
       THEN SetError(s, "could not find expected ':'")
       ELSE [s EXCEPT !.simple_keys = SetTop(@, [key EXCEPT !.possible = FALSE])]

yaml_parser_save_simple_key(s) ==
    LET required == s.flow_level = 0 /\ s.indent = s.mark.column
        key == [possible |-> TRUE, required |-> required,
                token_number |-> s.tokens_parsed + Len(s.tokens),
                mark |-> s.mark]
    IN IF s.simple_key_allowed
       THEN Then(yaml_parser_remove_simple_key(s),
                 LAMBDA t : [t EXCEPT !.simple_keys = SetTop(@, key)])
       ELSE s

yaml_parser_increase_flow_level(s) ==
    [s EXCEPT !.simple_keys = Append(@, NoSimpleKey), !.flow_level = @ + 1]

\* The decrease of the flow level without the test of parser->flow_level,
\* the variant the test guards against.
DecreaseFlowLevelUnguarded(s) ==
    [s EXCEPT !.flow_level = @ - 1,
              !.simple_keys = SubSeq(@, 1, Len(@) - 1)]

yaml_parser_decrease_flow_level(s) ==
    IF s.flow_level > 0
    THEN [s EXCEPT !.flow_level = @ - 1,
                   !.simple_keys = SubSeq(@, 1, Len(@) - 1)]
    ELSE s

\* Opens a block collection at every indicator, whatever the indent.
RollIndentAlways(s, column, number, type, mark) ==
    IF s.flow_level > 0 THEN s
    ELSE ENQUEUE([s EXCEPT !.indents = Append(@, s.indent), !.indent = column],
                 Tok(type, mark))

\* number = -1 appends the token, otherwise it is inserted at queue position
\* number - tokens_parsed.
yaml_parser_roll_indent(s, column, number, type, mark) ==
    IF s.flow_level > 0 THEN s
    ELSE IF s.indent < column
    THEN LET t == [s EXCEPT !.indents = Append(@, s.indent), !.indent = column]
         IN IF number = -1
            THEN ENQUEUE(t, Tok(type, mark))
            ELSE QUEUE_INSERT(t, number - s.tokens_parsed, Tok(type, mark))
    ELSE s

\* Pops an indent level without a BLOCK-END token.
UnrollSilent(s) ==
    [s EXCEPT !.indent = s.indents[Len(s.indents)],
              !.indents = SubSeq(@, 1, Len(@) - 1)]

\* One iteration of the loop of yaml_parser_unroll_indent.  POP on an empty
\* stack reads below the stack: `underflow' records it and ends the loop.
UnrollOnce(s) ==
    IF Len(s.indents) = 0
    THEN [ENQUEUE(s, Tok("BLOCK_END", s.mark)) EXCEPT !.underflow = TRUE]
    ELSE [ENQUEUE(s, Tok("BLOCK_END", s.mark))
            EXCEPT !.indent = s.indents[Len(s.indents)],
                   !.indents = SubSeq(@, 1, Len(@) - 1)]

RECURSIVE UnrollLoop(_, _)
UnrollLoop(s, column) ==
    CHOOSE r \in
      {IF t.indent > column /\ ~t.underflow
       THEN UnrollLoop(UnrollOnce(t), column)
       ELSE t :
       t \in {s}} : TRUE

yaml_parser_unroll_indent(s, column) ==
    IF s.flow_level > 0 THEN s ELSE UnrollLoop(s, column)

\* Consume the next lexeme: the reader stands behind its last character.
ReadLx(s) ==
    [s EXCEPT !.mark = MarkOver(s.mark, NextLx(s)), !.pos = @ + 1, !.ws = "none"]

yaml_parser_scan_to_next_token(s) ==
    IF AtEnd(s) \/ s.ws = "all" THEN s
    ELSE LET lx == NextLx(s)
         IN IF s.ws = "break"
            THEN [s EXCEPT !.mark = MarkBefore(s.mark, [lx EXCEPT !.nl = FALSE]),
                           !.ws = "all"]
            ELSE [s EXCEPT !.mark = MarkBefore(s.mark, lx), !.ws = "all",
                           !.simple_key_allowed =
                               IF lx.nl /\ s.flow_level = 0 THEN TRUE ELSE @]

\* The lexemes that end a plain scalar; every other lexeme that follows the
\* scalar at a sufficient indentation is read as part of it.
EndsPlain(s, lx) ==
    \/ lx.kind = "value"
    \/ s.flow_level > 0
         /\ lx.kind \in {"comma", "key", "seqstart", "seqend", "mapstart", "mapend"}
    \/ s.mark.column = 0 /\ lx.kind \in {"docstart", "docend"}

\* The loop of yaml_parser_scan_plain_scalar after the first characters were
\* read; `indent' is parser->indent + 1 on entry.
RECURSIVE PlainLoop(_, _)
PlainLoop(s, indent) ==
    CHOOSE r \in
      {IF AtEnd(p) THEN p
       ELSE LET lx == NextLx(p)
            IN CHOOSE q \in
                 {IF (t.flow_level = 0 /\ t.mark.column < indent) \/ EndsPlain(t, lx)
                  THEN t
                  ELSE PlainLoop([ReadLx(t) EXCEPT !.leading_blanks = FALSE], indent) :
                  t \in {[p EXCEPT !.mark = MarkBefore(p.mark, lx), !.ws = "all",
                                   !.leading_blanks = lx.nl]}} : TRUE :
       p \in {s}} : TRUE

yaml_parser_scan_plain_scalar(s) ==
    LET t == PlainLoop([ReadLx(s) EXCEPT !.leading_blanks = FALSE], s.indent + 1)
    IN [t EXCEPT !.simple_key_allowed = IF t.leading_blanks THEN TRUE ELSE @,
                 !.leading_blanks = FALSE]

\* yaml_parser_scan_directive reads to the end of the line and eats the break.
yaml_parser_scan_directive(s) ==
    LET t == ReadLx(s)
    IN IF AtEnd(t) THEN t
       ELSE IF ~NextLx(t).nl
       THEN SetError(t, "did not find expected comment or line break")
       ELSE [t EXCEPT !.mark = [index |-> @.index + 1, line |-> @.line + 1,
                                column |-> 0],
                      !.ws = "break"]

yaml_parser_fetch_stream_start(s) ==
    ENQUEUE([s EXCEPT !.indent = -1,
                      !.simple_keys = Append(@, NoSimpleKey),
                      !.simple_key_allowed = TRUE,
                      !.stream_start_produced = TRUE],
            Tok("STREAM_START", s.mark))

\* Reset the indentation, drop the simple key candidate and append a token.
FetchAtMargin(s, type) ==
    Then(yaml_parser_unroll_indent(s, -1), LAMBDA t :
    Then(yaml_parser_remove_simple_key(t), LAMBDA u :
        ENQUEUE([u EXCEPT !.simple_key_allowed = FALSE], Tok(type, u.mark))))

yaml_parser_fetch_stream_end(s) ==
    FetchAtMargin(IF s.mark.column # 0
                  THEN [s EXCEPT !.mark.column = 0, !.mark.line = @ + 1]
                  ELSE s,
                  "STREAM_END")

yaml_parser_fetch_directive(s) ==
    LET lx == NextLx(s)
        t == FetchAtMargin(s, IF lx.kind = "yamldirective"
                              THEN "VERSION_DIRECTIVE" ELSE "TAG_DIRECTIVE")
    IN IF Failed(t) THEN t
       ELSE yaml_parser_scan_directive(
              [t EXCEPT !.tokens = SetTop(@, [@[Len(@)] EXCEPT !.a = lx.a, !.b = lx.b])])

yaml_parser_fetch_document_indicator(s, type) ==
    Then(FetchAtMargin(s, type), ReadLx)

yaml_parser_fetch_flow_collection_start(s, type) ==
    Then(yaml_parser_save_simple_key(s), LAMBDA t :
        ReadLx(ENQUEUE([yaml_parser_increase_flow_level(t)
                           EXCEPT !.simple_key_allowed = TRUE],
                       Tok(type, s.mark))))

yaml_parser_fetch_flow_collection_end(s, type) ==
    Then(yaml_parser_remove_simple_key(s), LAMBDA t :
        ReadLx(ENQUEUE([yaml_parser_decrease_flow_level(t)
                           EXCEPT !.simple_key_allowed = FALSE],
                       Tok(type, s.mark))))

yaml_parser_fetch_flow_entry(s) ==
    Then(yaml_parser_remove_simple_key(s), LAMBDA t :
        ReadLx(ENQUEUE([t EXCEPT !.simple_key_allowed = TRUE],
                       Tok("FLOW_ENTRY", s.mark))))

\* The common head of the fetchers of '-', '?' and of a ':' that follows no
\* simple key: in the block context the indicator must be allowed here and
\* may open a block collection.
RollBlock(s, type, problem) ==
    IF s.flow_level > 0 THEN s
    ELSE IF ~s.simple_key_allowed THEN SetError(s, problem)
    ELSE yaml_parser_roll_indent(s, s.mark.column, -1, type, s.mark)

yaml_parser_fetch_block_entry(s) ==
    Then(RollBlock(s, "BLOCK_SEQUENCE_START",
                   "block sequence entries are not allowed in this context"),
         LAMBDA t :
    Then(yaml_parser_remove_simple_key(t), LAMBDA u :
        ReadLx(ENQUEUE([u EXCEPT !.simple_key_allowed = TRUE],
                       Tok("BLOCK_ENTRY", s.mark)))))

yaml_parser_fetch_key(s) ==
    Then(RollBlock(s, "BLOCK_MAPPING_START",
                   "mapping keys are not allowed in this context"),
         LAMBDA t :
    Then(yaml_parser_remove_simple_key(t), LAMBDA u :
        ReadLx(ENQUEUE([u EXCEPT !.simple_key_allowed = (u.flow_level = 0)],
                       Tok("KEY", s.mark)))))

\* The position behind the last token of the queue.
KeyPositionTail(s, key) == Len(s.tokens)

\* The queue position at which the KEY token of a simple key is inserted.
KeyPosition(s, key) == key.token_number - s.tokens_parsed

yaml_parser_fetch_value(s) ==
    LET key == s.simple_keys[Len(s.simple_keys)]
        value == [Tok("VALUE", s.mark) EXCEPT !.simple = key.possible]
    IN IF key.possible
       THEN LET t == QUEUE_INSERT(s, KeyPosition(s, key),
                                  [Tok("KEY", key.mark) EXCEPT !.simple = TRUE])
                u == yaml_parser_roll_indent(t, key.mark.column,
                         key.token_number, "BLOCK_MAPPING_START", key.mark)
            IN ReadLx(ENQUEUE(
                 [u EXCEPT !.simple_keys =
                               SetTop(@, [key EXCEPT !.possible = FALSE]),
                           !.simple_key_allowed = FALSE],
                 value))
       ELSE Then(RollBlock(s, "BLOCK_MAPPING_START",
                           "mapping values are not allowed in this context"),
                 LAMBDA t :
                   ReadLx(ENQUEUE(
                     [t EXCEPT !.simple_key_allowed = (t.flow_level = 0)],
                     value)))

\* yaml_parser_fetch_anchor, yaml_parser_fetch_tag and
\* yaml_parser_fetch_flow_scalar: a possible simple key, then the token.
FetchKeyStart(s, type) ==
    LET lx == NextLx(s)
    IN Then(yaml_parser_save_simple_key(s), LAMBDA t :
         ReadLx(ENQUEUE([t EXCEPT !.simple_key_allowed = FALSE],
                        [Tok(type, s.mark)
                           EXCEPT !.a = IF type = "SCALAR" THEN "x" ELSE lx.a,
                                  !.b = IF type = "SCALAR" THEN "double-quoted"
                                        ELSE lx.b])))

\* The value of the token is the text of the lexeme, "x" by default, and
\* the words that the scalar goes on with.
yaml_parser_fetch_plain_scalar(s) ==
    Then(yaml_parser_save_simple_key(s), LAMBDA t :
        LET u == yaml_parser_scan_plain_scalar(
                    [t EXCEPT !.simple_key_allowed = FALSE])
            word(lx) == IF lx.a = "" THEN "x" ELSE lx.a
            value == IF u.pos = t.pos + 1 THEN word(NextLx(t))
                     ELSE word(NextLx(t)) \o " x"
        IN ENQUEUE(u, [Tok("SCALAR", s.mark) EXCEPT !.a = value, !.b = "plain"]))

FetchLexeme(s) ==
    LET lx == NextLx(s)
    IN CASE lx.kind \in {"tagdirective", "yamldirective"} ->
              IF s.mark.column = 0 THEN yaml_parser_fetch_directive(s)
              ELSE SetError(s, "found character that cannot start any token")
         [] lx.kind = "docstart" /\ s.mark.column = 0 ->
              yaml_parser_fetch_document_indicator(s, "DOCUMENT_START")
         [] lx.kind = "docend" /\ s.mark.column = 0 ->
              yaml_parser_fetch_document_indicator(s, "DOCUMENT_END")
         [] lx.kind = "seqstart" ->
              yaml_parser_fetch_flow_collection_start(s, "FLOW_SEQUENCE_START")
         [] lx.kind = "mapstart" ->
              yaml_parser_fetch_flow_collection_start(s, "FLOW_MAPPING_START")
         [] lx.kind = "seqend" ->
              yaml_parser_fetch_flow_collection_end(s, "FLOW_SEQUENCE_END")
         [] lx.kind = "mapend" ->
              yaml_parser_fetch_flow_collection_end(s, "FLOW_MAPPING_END")
         [] lx.kind = "comma" -> yaml_parser_fetch_flow_entry(s)
         [] lx.kind = "entry" -> yaml_parser_fetch_block_entry(s)
         [] lx.kind = "key" -> yaml_parser_fetch_key(s)
         [] lx.kind = "value" -> yaml_parser_fetch_value(s)
         [] lx.kind = "alias" -> FetchKeyStart(s, "ALIAS")
         [] lx.kind = "anchor" -> FetchKeyStart(s, "ANCHOR")
         [] lx.kind = "tag" -> FetchKeyStart(s, "TAG")
         [] lx.kind = "quoted2" -> FetchKeyStart(s, "SCALAR")
         [] OTHER -> yaml_parser_fetch_plain_scalar(s)

yaml_parser_fetch_next_token(s) ==
    IF ~s.stream_start_produced THEN yaml_parser_fetch_stream_start(s)
    ELSE Then(yaml_parser_stale_simple_keys(yaml_parser_scan_to_next_token(s)),
              LAMBDA t :
         Then(yaml_parser_unroll_indent(t, t.mark.column), LAMBDA u :
              IF AtEnd(u) THEN yaml_parser_fetch_stream_end(u)
              ELSE FetchLexeme(u)))

\* A loop test that looks at the queue only.
NeedMoreIfEmpty(s) == s.tokens = << >>

\* The test of the loop of yaml_parser_fetch_more_tokens, made after
\* yaml_parser_stale_simple_keys.
NeedMoreTokens(s) ==
    \/ s.tokens = << >>
    \/ \E i \in 1..Len(s.simple_keys) :
           /\ s.simple_keys[i].possible
           /\ s.simple_keys[i].token_number = s.tokens_parsed

\* One iteration of the loop of yaml_parser_fetch_more_tokens: the parser
\* with token_available set when the loop is left.
FetchMoreStep(s) ==
    Then(IF s.tokens = << >> THEN s ELSE yaml_parser_stale_simple_keys(s),
         LAMBDA t : IF NeedMoreTokens(t) THEN yaml_parser_fetch_next_token(t)
                    ELSE [t EXCEPT !.token_available = TRUE])

\* The loop of yaml_parser_fetch_more_tokens, run for at most `budget'
\* iterations: when they are used up the parser is left `blocked' in front of
\* the next iteration.
RECURSIVE yaml_parser_fetch_more_tokens(_)
yaml_parser_fetch_more_tokens(s) ==
    CHOOSE r \in
      {IF Failed(t) \/ t.token_available THEN t
       ELSE IF t.budget = 0 THEN [t EXCEPT !.blocked = TRUE]
       ELSE yaml_parser_fetch_more_tokens(FetchMoreStep([t EXCEPT !.budget = @ - 1])) :
       t \in {s}} : TRUE

\* ---------------------------------------------------------------------------
\* The scanner driven by a consumer that peeks and skips tokens (PEEK_TOKEN,
\* SKIP_TOKEN), over every text of at most MaxLexemes lexemes.
\* ---------------------------------------------------------------------------

MaxLexemes == 4

ScanKinds ==
    {"plain", "value", "entry", "key", "seqstart", "seqend", "comma", "long",
     "quoted2"}

\* A lexeme follows on the same line after one space, or starts a line at
\* column 0 or 2; the first lexeme of a text stands at its very beginning.
ScanLexemes ==
    {Lx(k, FALSE, 1) : k \in ScanKinds}
    \cup {Lx(k, TRUE, c) : k \in {"plain", "entry"}, c \in {0, 2}}
    \cup {Lx("value", TRUE, 0), Lx("key", TRUE, 0)}

TokenTypes(tokens) == [i \in 1..Len(tokens) |-> tokens[i].type]

\* What yaml_parser_unroll_indent reads and writes.
Indentation(s) ==
    [flow_level |-> s.flow_level, indent |-> s.indent, indents |-> s.indents,
     tokens |-> TokenTypes(s.tokens), underflow |-> s.underflow]

AtMargin(s) ==
    \/ AtEnd(s)
    \/ s.mark.column = 0 /\ NextLx(s).kind \in {"tagdirective", "yamldirective", "docstart", "docend"}

\* The calls of yaml_parser_unroll_indent that yaml_parser_fetch_next_token
\* makes on parser s: with the column of the next token, and with -1 at the
\* end of the stream, at a directive and at a document indicator.
UnrollCalls(s) ==
    LET t == yaml_parser_stale_simple_keys(yaml_parser_scan_to_next_token(s))
        u == yaml_parser_unroll_indent(t, t.mark.column)
    IN IF ~s.stream_start_produced \/ Failed(t) THEN << >>
       ELSE << [column |-> t.mark.column, before |-> Indentation(t),
                after |-> Indentation(u)] >>
            \o IF AtMargin(u)
               THEN << [column |-> -1, before |-> Indentation(u),
                        after |-> Indentation(yaml_parser_unroll_indent(u, -1))] >>
               ELSE << >>

InitScan ==
    /\ heap = << >>
    /\ \/ vals = NewParser(<< >>)
       \/ \E k \in ScanKinds, n \in 0..(MaxLexemes - 1) :
             \E rest \in [1..n -> ScanLexemes] :
                vals = NewParser(<< Lx(k, FALSE, 0) >> \o rest)
    /\ pc = "peek"
    /\ aux = [out |-> << >>, unroll |-> << >>, fetches |-> 0]

\* One iteration of the loop of yaml_parser_fetch_more_tokens that fetches a
\* token.
FetchToken ==
    LET t == IF vals.tokens = << >> THEN vals
             ELSE yaml_parser_stale_simple_keys(vals)
    IN /\ pc = "peek" /\ ~vals.token_available
       /\ ~Failed(t) /\ NeedMoreTokens(t)
       /\ vals' = yaml_parser_fetch_next_token(t)
       /\ pc' = IF Failed(vals') THEN "error" ELSE "peek"
       /\ aux' = [aux EXCEPT !.unroll = UnrollCalls(t), !.fetches = @ + 1]
       /\ UNCHANGED heap

\* yaml_parser_fetch_more_tokens returns 1.
FetchReturn ==
    LET t == IF vals.tokens = << >> THEN vals
             ELSE yaml_parser_stale_simple_keys(vals)
    IN /\ pc = "peek" /\ ~vals.token_available
       /\ ~Failed(t) /\ ~NeedMoreTokens(t)
       /\ vals' = [t EXCEPT !.token_available = TRUE]
       /\ pc' = "skip"
       /\ UNCHANGED << heap, aux >>

\* yaml_parser_fetch_more_tokens returns 0: a simple key went stale.
FetchFail ==
    LET t == yaml_parser_stale_simple_keys(vals)
    IN /\ pc = "peek" /\ ~vals.token_available
       /\ vals.tokens # << >> /\ Failed(t)
       /\ vals' = t
       /\ pc' = "error"
       /\ UNCHANGED << heap, aux >>

\* The removal of the head token that leaves tokens_parsed as it was, the
\* variant against which the count of consumed tokens is checked.
SkipTokenUncounted(s) ==
    [s EXCEPT !.token_available = FALSE,
              !.stream_end_produced = (s.tokens[1].type = "STREAM_END"),
              !.tokens = Tail(@),
              !.taken = Append(@, s.tokens[1].type)]

SKIP_TOKEN(s) ==
    [s EXCEPT !.token_available = FALSE,
              !.tokens_parsed = @ + 1,
              !.stream_end_produced = (s.tokens[1].type = "STREAM_END"),
              !.tokens = Tail(@),
              !.taken = Append(@, s.tokens[1].type)]

SkipToken ==
    /\ pc = "skip"
    /\ vals' = SKIP_TOKEN(vals)
    /\ aux' = [aux EXCEPT !.out = Append(@, vals.tokens[1])]
    /\ pc' = IF vals'.stream_end_produced THEN "end" ELSE "peek"
    /\ UNCHANGED heap

NextScan == FetchToken \/ FetchReturn \/ FetchFail \/ SkipToken

SpecScan == InitScan /\ [][NextScan]_vars

\* The tokens in the order the consumer gets them: those it has skipped, then
\* the queue.
Stream == aux.out \o vals.tokens

KeyStarts == {"SCALAR", "ALIAS", "ANCHOR", "TAG", "FLOW_SEQUENCE_START",
              "FLOW_MAPPING_START"}

Before(m, n) == m.index < n.index

\* C21: the KEY token of a simple key stands in the token stream directly in
\* front of the first token of the key (same mark), the VALUE token follows
\* behind the key's own tokens, and a BLOCK-MAPPING-START token stands directly
\* in front of the KEY or VALUE token that opened the mapping, at the same
\* mark, so that the mapping indent is the column of the key.
C21_KeyInsertedBeforeKey ==
    /\ \A i \in 1..Len(Stream) :
         Stream[i].type = "KEY" /\ Stream[i].simple =>
           /\ i < Len(Stream)
           /\ Stream[i + 1].type \in KeyStarts
           /\ Stream[i + 1].mark = Stream[i].mark
           /\ \E j \in (i + 2)..Len(Stream) :
                /\ Stream[j].type = "VALUE" /\ Stream[j].simple
                /\ \A k \in (i + 1)..(j - 1) :
                     /\ ~Before(Stream[k].mark, Stream[i].mark)
                     /\ Before(Stream[k].mark, Stream[j].mark)
    /\ \A i \in 1..Len(Stream) :
         Stream[i].type = "BLOCK_MAPPING_START" =>
           /\ i < Len(Stream)
           /\ Stream[i + 1].type \in {"KEY", "VALUE"}
           /\ Stream[i + 1].mark = Stream[i].mark
    /\ \A i \in 1..Len(Stream) :
         Stream[i].type = "VALUE" /\ Stream[i].simple =>
           \E j \in 1..(i - 1) : Stream[j].type = "KEY" /\ Stream[j].simple

\* The consumer has taken BLOCK-MAPPING-START, KEY, the key and VALUE of two
\* nested block mappings whose keys were simple keys.
C21_Witness ==
    /\ pc = "end"
    /\ \E i, j \in 1..Len(aux.out) :
         /\ i + 3 < j /\ j + 3 <= Len(aux.out)
         /\ \A k \in {i, j} :
              /\ aux.out[k].type = "BLOCK_MAPPING_START"
              /\ aux.out[k + 1].type = "KEY" /\ aux.out[k + 1].simple
              /\ aux.out[k + 2].type = "SCALAR"
              /\ aux.out[k + 3].type = "VALUE"
         /\ aux.out[i].mark.column < aux.out[j].mark.column

\* C22: when yaml_parser_fetch_more_tokens has returned success, the token
\* queue is not empty and no simple key that is still possible refers to the
\* token at the head of the queue or to one already taken.
C22_HeadIsFinal ==
    pc = "skip" =>
      /\ vals.token_available
      /\ vals.tokens # << >>
      /\ \A i \in 1..Len(vals.simple_keys) :
           vals.simple_keys[i].possible =>
             vals.simple_keys[i].token_number > vals.tokens_parsed

\* Success was returned while a possible simple key refers to a token further
\* back in the queue.
C22_Witness ==
    /\ pc = "skip"
    /\ Len(vals.tokens) >= 2
    /\ \E i \in 1..Len(vals.simple_keys) :
         /\ vals.simple_keys[i].possible
         /\ vals.simple_keys[i].token_number = vals.tokens_parsed + 1

\* The reader is on a later line than the start of the candidate, or more
\* than 1024 positions behind it.
Expired(key, mark) ==
    key.mark.line < mark.line \/ mark.index - key.mark.index > 1024

RequiredKeys(s) ==
    {i \in 1..Len(s.simple_keys) :
        s.simple_keys[i].possible /\ s.simple_keys[i].required}

Confirmed(s, key) ==
    \E j \in 1..Len(s.tokens) :
        /\ s.tokens[j].type = "KEY" /\ s.tokens[j].simple
        /\ s.tokens[j].mark = key.mark

\* C23: when yaml_parser_fetch_more_tokens returns, no expired candidate is
\* possible, and a candidate is only confirmed by a ':' on its line at most
\* 1024 positions behind its start; a required candidate was recorded in the
\* block context at the column of the current indent; the step that follows
\* the expiry of a required candidate fails with "could not find expected ':'",
\* and a required candidate leaves its slot only by being confirmed or by that
\* failure.
C23_StaleKeys ==
    [][ /\ pc = "skip" =>
             \A i \in 1..Len(vals.simple_keys) :
                 vals.simple_keys[i].possible =>
                     ~Expired(vals.simple_keys[i], vals.mark)
        /\ \A i \in 1..Len(Stream), j \in 1..Len(Stream) :
             /\ Stream[i].type = "KEY" /\ Stream[i].simple
             /\ Stream[j].type = "VALUE" /\ Stream[j].simple /\ i < j
             /\ \A k \in (i + 1)..(j - 1) : Stream[k].type # "VALUE"
             => ~Expired(Stream[i], Stream[j].mark)
        /\ (\E i \in RequiredKeys(vals) : Expired(vals.simple_keys[i], vals.mark))
             => vals'.error = "could not find expected ':'"
        /\ \A i \in RequiredKeys(vals) :
             \/ vals'.error = "could not find expected ':'"
             \/ Confirmed(vals', vals.simple_keys[i])
             \/ /\ i <= Len(vals'.simple_keys)
                /\ vals'.simple_keys[i] = vals.simple_keys[i]
      ]_vars

\* A required candidate, recorded in the block context at the column of the
\* indent, expired at a line break and the scan failed.
C23_Witness ==
    /\ pc = "error"
    /\ vals.error = "could not find expected ':'"
    /\ \E i \in RequiredKeys(vals) :
         /\ vals.simple_keys[i].mark.line < vals.mark.line
         /\ vals.simple_keys[i].mark.column = vals.indent
         /\ vals.flow_level = 0

MaxColumn == 4

BlockEnds(n) == [i \in 1..n |-> "BLOCK_END"]

\* What a call of yaml_parser_unroll_indent with `column' has to turn the
\* indentation b into.
UnrollContract(b, column, a) ==
    IF b.flow_level > 0 THEN a = b
    ELSE LET n == Len(b.indents) - Len(a.indents)
         IN /\ n >= 0
            /\ ~a.underflow
            /\ a.flow_level = b.flow_level
            /\ a.indents = SubSeq(b.indents, 1, Len(a.indents))
            /\ a.tokens = b.tokens \o BlockEnds(n)
            /\ a.indent <= column
            /\ n = 0 => a.indent = b.indent
            /\ n > 0 => /\ a.indent = b.indents[Len(a.indents) + 1]
                        /\ b.indent > column
                        /\ \A i \in (Len(a.indents) + 2)..Len(b.indents) :
                               b.indents[i] > column

\* C25: in the block context yaml_parser_unroll_indent(column) appends one
\* BLOCK-END token per indent level it pops, pops exactly the levels above
\* `column' and never an empty stack, for every column from -1 on; in the flow
\* context it changes nothing.  Checked on the calls the scanner made and on
\* a call with every column in every state reached.
C25_UnrollIndent ==
    /\ \A i \in 1..Len(aux.unroll) :
         UnrollContract(aux.unroll[i].before, aux.unroll[i].column,
                        aux.unroll[i].after)
    /\ vals.stream_start_produced /\ ~vals.underflow =>
         \A column \in -1..MaxColumn :
             UnrollContract(Indentation(vals), column,
                            Indentation(yaml_parser_unroll_indent(vals, column)))

\* The scanner unrolled two block collections at once at the end of the stream.
C25_Witness ==
    /\ \E i \in 1..Len(aux.unroll) :
         /\ aux.unroll[i].before.flow_level = 0
         /\ Len(aux.unroll[i].before.indents) = 2
         /\ aux.unroll[i].after.indents = << >>
         /\ aux.unroll[i].column = -1
    /\ vals.stream_end_produced

\* ---------------------------------------------------------------------------
\* libyaml parser (src/unnamed/part_000): yaml_parser_parse and the state
\* functions.  A state function leaves its event in the `event' field of the
\* parser.  An event records, besides its data, the number of tokens taken
\* when it was initialised (n), the state the parser was in when
\* yaml_parser_parse was called (state) and the TAG token of its node
\* (tag_token).  `own_directives' is the stack of the %TAG directives that
\* yaml_parser_process_directives hands to the DOCUMENT-START event.
\* ---------------------------------------------------------------------------

Stuck(s) == Failed(s) \/ s.blocked

\* Run step K unless the parser has failed or waits for the scanner.
Go(s, K(_)) ==
    CHOOSE r \in {IF Stuck(t) THEN t ELSE K(t) : t \in {s}} : TRUE

\* The two entries of the parser that run the scanner, PEEK_TOKEN and
\* yaml_parser_parse, are the arms of one operator, given after the state
\* functions.
RECURSIVE Call(_, _)

PEEK_TOKEN(s) == Call("PEEK_TOKEN", s)

\* token = PEEK_TOKEN(parser); if (!token) return 0; then K.
WithToken(s, K(_)) == Go(PEEK_TOKEN(s), K)

HeadToken(s) == s.tokens[1]

Event(s, type) ==
    [type |-> type, anchor |-> "", tag |-> "", value |-> "", style |-> "",
     tag_directives |-> << >>, tag_token |-> NoTagToken,
     n |-> s.tokens_parsed, state |-> ""]

Emit(s, event) == [s EXCEPT !.event = event]

\* PUSH(parser, parser->states, state) that pushes nothing.
DropState(s, state) == s

PUSH_STATE(s, state) == [s EXCEPT !.states = Append(@, state)]

\* parser->state = POP(parser, parser->states).  POP moves the top down and
\* reads under it without a test: on an empty stack it reads below the
\* start of the stack, which `empty_pop' records; what is read then is not
\* defined, and the parser is left as it is.
POP_STATE(s) ==
    IF s.states = << >> THEN [s EXCEPT !.empty_pop = TRUE]
    ELSE [s EXCEPT !.state = s.states[Len(s.states)],
                   !.states = SubSeq(@, 1, Len(@) - 1)]

\* PUSH(parser, parser->marks, token->start_mark)
PUSH_MARK(s, mark) == [s EXCEPT !.marks = Append(@, mark)]

\* POP(parser, parser->marks)
POP_MARK(s) ==
    IF s.marks = << >> THEN [s EXCEPT !.empty_pop = TRUE]
    ELSE [s EXCEPT !.marks = SubSeq(@, 1, Len(@) - 1)]

\* Puts the scalar "~" where a node is missing.
ProcessNullScalar(s) ==
    Emit(s, [Event(s, "SCALAR") EXCEPT !.style = "plain", !.value = "~"])

yaml_parser_process_empty_scalar(s) ==
    Emit(s, [Event(s, "SCALAR") EXCEPT !.style = "plain"])

HandleBound(directives, handle) ==
    \E i \in 1..Len(directives) : directives[i].handle = handle

\* Rejects every handle that is bound already.
AppendStrict(s, value, allow_duplicates) ==
    IF HandleBound(s.tag_directives, value.handle)
    THEN SetError(s, "found duplicate %TAG directive")
    ELSE [s EXCEPT !.tag_directives = Append(@, value)]

yaml_parser_append_tag_directive(s, value, allow_duplicates) ==
    IF HandleBound(s.tag_directives, value.handle)
    THEN IF allow_duplicates THEN s
         ELSE SetError(s, "found duplicate %TAG directive")
    ELSE [s EXCEPT !.tag_directives = Append(@, value)]

default_tag_directives ==
    << [handle |-> "!", prefix |-> "!"],
       [handle |-> "!!", prefix |-> "tag:yaml.org,2002:"] >>

\* The loop of yaml_parser_process_directives over the directive tokens;
\* `version' tells that a %YAML directive was seen.
RECURSIVE DirectivesLoop(_, _)
DirectivesLoop(s, version) ==
    WithToken(s, LAMBDA t :
      CASE HeadToken(t).type = "VERSION_DIRECTIVE" ->
             IF version THEN SetError(t, "found duplicate %YAML directive")
             ELSE IF HeadToken(t).a # "1.1"
             THEN SetError(t, "found incompatible YAML document")
             ELSE DirectivesLoop(SKIP_TOKEN(t), TRUE)
        [] HeadToken(t).type = "TAG_DIRECTIVE" ->
             Then(yaml_parser_append_tag_directive(
                     t, [handle |-> HeadToken(t).a, prefix |-> HeadToken(t).b], FALSE),
                  LAMBDA u : DirectivesLoop(
                      SKIP_TOKEN([u EXCEPT !.own_directives =
                          Append(@, [handle |-> HeadToken(t).a,
                                     prefix |-> HeadToken(t).b])]),
                      version))
        [] OTHER -> t)

yaml_parser_process_directives(s) ==
    Go(DirectivesLoop([s EXCEPT !.own_directives = << >>], FALSE), LAMBDA t :
       yaml_parser_append_tag_directive(
         yaml_parser_append_tag_directive(t, default_tag_directives[1], TRUE),
         default_tag_directives[2], TRUE))

yaml_parser_parse_stream_start(s) ==
    WithToken(s, LAMBDA t :
      IF HeadToken(t).type # "STREAM_START"
      THEN SetError(t, "did not find expected <stream-start>")
      ELSE SKIP_TOKEN(Emit([t EXCEPT !.state = "IMPLICIT_DOCUMENT_START"],
                           Event(t, "STREAM_START"))))

RECURSIVE SkipDocumentEnds(_)
SkipDocumentEnds(s) ==
    WithToken(s, LAMBDA t :
      IF HeadToken(t).type = "DOCUMENT_END" THEN SkipDocumentEnds(SKIP_TOKEN(t))
      ELSE t)

yaml_parser_parse_document_start(s, implicit) ==
    Go(IF implicit THEN PEEK_TOKEN(s) ELSE SkipDocumentEnds(s), LAMBDA t :
       IF implicit /\ HeadToken(t).type \notin {"VERSION_DIRECTIVE", "TAG_DIRECTIVE",
                                              "DOCUMENT_START", "STREAM_END"}
       THEN Go(yaml_parser_process_directives(t), LAMBDA u :
               Emit([PUSH_STATE(u, "DOCUMENT_END") EXCEPT !.state = "BLOCK_NODE"],
                    Event(u, "DOCUMENT_START")))
       ELSE IF HeadToken(t).type # "STREAM_END"
       THEN Go(yaml_parser_process_directives(t), LAMBDA u :
               WithToken(u, LAMBDA v :
                 IF HeadToken(v).type # "DOCUMENT_START"
                 THEN SetError(v, "did not find expected <document start>")
                 ELSE SKIP_TOKEN(
                        Emit([PUSH_STATE(v, "DOCUMENT_END")
                                 EXCEPT !.state = "DOCUMENT_CONTENT"],
                             [Event(v, "DOCUMENT_START") EXCEPT
                                 !.tag_directives = v.own_directives]))))
       ELSE SKIP_TOKEN(Emit([t EXCEPT !.state = "END"], Event(t, "STREAM_END"))))

\* Keeps the tag directives of the document that ends.
ParseDocumentEndKeeping(s) ==
    WithToken(s, LAMBDA t :
      LET u == IF HeadToken(t).type = "DOCUMENT_END" THEN SKIP_TOKEN(t) ELSE t
      IN Emit([u EXCEPT !.state = "DOCUMENT_START"],
              [Event(t, "DOCUMENT_END") EXCEPT !.n = u.tokens_parsed]))

yaml_parser_parse_document_end(s) ==
    WithToken(s, LAMBDA t :
      LET u == IF HeadToken(t).type = "DOCUMENT_END" THEN SKIP_TOKEN(t) ELSE t
      IN Emit([u EXCEPT !.tag_directives = << >>, !.state = "DOCUMENT_START"],
              [Event(t, "DOCUMENT_END") EXCEPT !.n = u.tokens_parsed]))

\* The tag of a node: the suffix for an empty handle, else the prefix of the
\* first directive with the handle, followed by the suffix.
ResolveTag(s, handle, suffix) ==
    IF handle = "" THEN [found |-> TRUE, tag |-> suffix]
    ELSE IF HandleBound(s.tag_directives, handle)
    THEN LET i == CHOOSE i \in 1..Len(s.tag_directives) :
                     /\ s.tag_directives[i].handle = handle
                     /\ \A j \in 1..(i - 1) : s.tag_directives[j].handle # handle
         IN [found |-> TRUE, tag |-> s.tag_directives[i].prefix \o suffix]
    ELSE [found |-> FALSE, tag |-> ""]

\* The part of yaml_parser_parse_node behind the properties of the node:
\* `props' holds the anchor, whether a TAG token was read, and its handle and
\* suffix.
NodeContent(s, block, indentless_sequence, props) ==
    LET r == IF props.tagged THEN ResolveTag(s, props.handle, props.suffix)
             ELSE [found |-> TRUE, tag |-> ""]
        token == HeadToken(s)
        tag_token == [tagged |-> props.tagged, handle |-> props.handle,
                      suffix |-> props.suffix]
        node(type) == [Event(s, type) EXCEPT !.anchor = props.anchor,
                                              !.tag = r.tag,
                                              !.tag_token = tag_token]
    IN IF ~r.found
       THEN SetError([s EXCEPT !.tag_token = tag_token], "found undefined tag handle")
       ELSE IF indentless_sequence /\ token.type = "BLOCK_ENTRY"
       THEN Emit([s EXCEPT !.state = "INDENTLESS_SEQUENCE_ENTRY"],
                 node("SEQUENCE_START"))
       ELSE IF token.type = "SCALAR"
       THEN SKIP_TOKEN(Emit(POP_STATE(s),
                [node("SCALAR") EXCEPT !.value = token.a, !.style = token.b]))
       ELSE IF token.type = "FLOW_SEQUENCE_START"
       THEN Emit([s EXCEPT !.state = "FLOW_SEQUENCE_FIRST_ENTRY"],
                 node("SEQUENCE_START"))
       ELSE IF token.type = "FLOW_MAPPING_START"
       THEN Emit([s EXCEPT !.state = "FLOW_MAPPING_FIRST_KEY"],
                 node("MAPPING_START"))
       ELSE IF block /\ token.type = "BLOCK_SEQUENCE_START"
       THEN Emit([s EXCEPT !.state = "BLOCK_SEQUENCE_FIRST_ENTRY"],
                 node("SEQUENCE_START"))
       ELSE IF block /\ token.type = "BLOCK_MAPPING_START"
       THEN Emit([s EXCEPT !.state = "BLOCK_MAPPING_FIRST_KEY"],
                 node("MAPPING_START"))
       ELSE IF props.anchor # "" \/ props.tagged
       THEN Emit(POP_STATE(s), [node("SCALAR") EXCEPT !.style = "plain"])
       ELSE SetError(s, "did not find expected node content")

NoProps == [anchor |-> "", tagged |-> FALSE, handle |-> "", suffix |-> ""]

yaml_parser_parse_node(s, block, indentless_sequence) ==
    LET content(t, props) == NodeContent(t, block, indentless_sequence, props)
        anchor(t, props) == [props EXCEPT !.anchor = HeadToken(t).a]
        tag(t, props) == [props EXCEPT !.tagged = TRUE, !.handle = HeadToken(t).a,
                                       !.suffix = HeadToken(t).b]
    IN WithToken(s, LAMBDA t :
         CASE HeadToken(t).type = "ALIAS" ->
                SKIP_TOKEN(Emit(POP_STATE(t),
                                [Event(t, "ALIAS") EXCEPT !.anchor = HeadToken(t).a]))
           [] HeadToken(t).type = "ANCHOR" ->
                WithToken(SKIP_TOKEN(t), LAMBDA u :
                  IF HeadToken(u).type = "TAG"
                  THEN WithToken(SKIP_TOKEN(u), LAMBDA v :
                         content(v, tag(u, anchor(t, NoProps))))
                  ELSE content(u, anchor(t, NoProps)))
           [] HeadToken(t).type = "TAG" ->
                WithToken(SKIP_TOKEN(t), LAMBDA u :
                  IF HeadToken(u).type = "ANCHOR"
                  THEN WithToken(SKIP_TOKEN(u), LAMBDA v :
                         content(v, anchor(u, tag(t, NoProps))))
                  ELSE content(u, tag(t, NoProps)))
           [] OTHER -> content(t, NoProps))

yaml_parser_parse_document_content(s) ==
    WithToken(s, LAMBDA t :
      IF HeadToken(t).type \in {"VERSION_DIRECTIVE", "TAG_DIRECTIVE", "DOCUMENT_START",
                           "DOCUMENT_END", "STREAM_END"}
      THEN yaml_parser_process_empty_scalar(POP_STATE(t))
      ELSE yaml_parser_parse_node(t, TRUE, FALSE))

\* if (first) { token = PEEK_TOKEN(parser);
\*              PUSH(parser, parser->marks, token->start_mark);
\*              SKIP_TOKEN(parser); }
SkipFirst(s, first) ==
    IF first
    THEN WithToken(s, LAMBDA t : SKIP_TOKEN(PUSH_MARK(t, HeadToken(t).mark)))
    ELSE s

\* The entry of a collection behind its indicator: a node unless one of the
\* `ends' follows, else an empty scalar.
NodeOrEmpty(s, ends, next, block, indentless_sequence) ==
    WithToken(s, LAMBDA t :
      IF HeadToken(t).type \notin ends
      THEN yaml_parser_parse_node(PUSH_STATE(t, next), block, indentless_sequence)
      ELSE yaml_parser_process_empty_scalar([t EXCEPT !.state = next]))

\* Closes a block sequence with MAPPING-END.
BlockSequenceEntryAsMapping(s, first) ==
    Go(SkipFirst(s, first), LAMBDA r : WithToken(r, LAMBDA t :
      IF HeadToken(t).type = "BLOCK_ENTRY"
      THEN NodeOrEmpty(SKIP_TOKEN(t), {"BLOCK_ENTRY", "BLOCK_END"},
                       "BLOCK_SEQUENCE_ENTRY", TRUE, FALSE)
      ELSE IF HeadToken(t).type = "BLOCK_END"
      THEN SKIP_TOKEN(Emit(POP_MARK(POP_STATE(t)), Event(t, "MAPPING_END")))
      ELSE SetError(POP_MARK(t), "did not find expected '-' indicator")))

yaml_parser_parse_block_sequence_entry(s, first) ==
    Go(SkipFirst(s, first), LAMBDA r : WithToken(r, LAMBDA t :
      IF HeadToken(t).type = "BLOCK_ENTRY"
      THEN NodeOrEmpty(SKIP_TOKEN(t), {"BLOCK_ENTRY", "BLOCK_END"},
                       "BLOCK_SEQUENCE_ENTRY", TRUE, FALSE)
      ELSE IF HeadToken(t).type = "BLOCK_END"
      THEN SKIP_TOKEN(Emit(POP_MARK(POP_STATE(t)), Event(t, "SEQUENCE_END")))
      ELSE SetError(POP_MARK(t), "did not find expected '-' indicator")))

yaml_parser_parse_indentless_sequence_entry(s) ==
    WithToken(s, LAMBDA t :
      IF HeadToken(t).type = "BLOCK_ENTRY"
      THEN NodeOrEmpty(SKIP_TOKEN(t), {"BLOCK_ENTRY", "KEY", "VALUE", "BLOCK_END"},
                       "INDENTLESS_SEQUENCE_ENTRY", TRUE, FALSE)
      ELSE Emit(POP_STATE(t), Event(t, "SEQUENCE_END")))

yaml_parser_parse_block_mapping_key(s, first) ==
    Go(SkipFirst(s, first), LAMBDA r : WithToken(r, LAMBDA t :
      IF HeadToken(t).type = "KEY"
      THEN NodeOrEmpty(SKIP_TOKEN(t), {"KEY", "VALUE", "BLOCK_END"},
                       "BLOCK_MAPPING_VALUE", TRUE, TRUE)
      ELSE IF HeadToken(t).type = "BLOCK_END"
      THEN SKIP_TOKEN(Emit(POP_MARK(POP_STATE(t)), Event(t, "MAPPING_END")))
      ELSE SetError(POP_MARK(t), "did not find expected key")))

yaml_parser_parse_block_mapping_value(s) ==
    WithToken(s, LAMBDA t :
      IF HeadToken(t).type = "VALUE"
      THEN NodeOrEmpty(SKIP_TOKEN(t), {"KEY", "VALUE", "BLOCK_END"},
                       "BLOCK_MAPPING_KEY", TRUE, TRUE)
      ELSE yaml_parser_process_empty_scalar([t EXCEPT !.state = "BLOCK_MAPPING_KEY"]))

\* The head of yaml_parser_parse_flow_sequence_entry and of
\* yaml_parser_parse_flow_mapping_key: unless the collection ends here, an
\* entry that is not the first one has to follow a FLOW-ENTRY token.
FlowEntry(s, first, end, problem, K(_)) ==
    IF HeadToken(s).type = end \/ first THEN K(s)
    ELSE IF HeadToken(s).type = "FLOW_ENTRY" THEN WithToken(SKIP_TOKEN(s), K)
    ELSE SetError(POP_MARK(s), problem)

yaml_parser_parse_flow_sequence_entry(s, first) ==
    Go(SkipFirst(s, first), LAMBDA r : WithToken(r, LAMBDA t :
      FlowEntry(t, first, "FLOW_SEQUENCE_END", "did not find expected ',' or ']'",
        LAMBDA u :
          IF HeadToken(u).type = "KEY"
          THEN SKIP_TOKEN(Emit([u EXCEPT !.state = "FLOW_SEQUENCE_ENTRY_MAPPING_KEY"],
                               Event(u, "MAPPING_START")))
          ELSE IF HeadToken(u).type # "FLOW_SEQUENCE_END"
          THEN yaml_parser_parse_node(PUSH_STATE(u, "FLOW_SEQUENCE_ENTRY"),
                                      FALSE, FALSE)
          ELSE SKIP_TOKEN(Emit(POP_MARK(POP_STATE(u)), Event(u, "SEQUENCE_END"))))))

yaml_parser_parse_flow_sequence_entry_mapping_key(s) ==
    WithToken(s, LAMBDA t :
      IF HeadToken(t).type \notin {"VALUE", "FLOW_ENTRY", "FLOW_SEQUENCE_END"}
      THEN yaml_parser_parse_node(
             PUSH_STATE(t, "FLOW_SEQUENCE_ENTRY_MAPPING_VALUE"), FALSE, FALSE)
      ELSE yaml_parser_process_empty_scalar(
             [SKIP_TOKEN(t) EXCEPT !.state = "FLOW_SEQUENCE_ENTRY_MAPPING_VALUE"]))

\* The value of a flow mapping entry behind its key.
FlowValue(s, ends, next) ==
    WithToken(s, LAMBDA t :
      IF HeadToken(t).type = "VALUE"
      THEN NodeOrEmpty(SKIP_TOKEN(t), ends, next, FALSE, FALSE)
      ELSE yaml_parser_process_empty_scalar([t EXCEPT !.state = next]))

yaml_parser_parse_flow_sequence_entry_mapping_value(s) ==
    FlowValue(s, {"FLOW_ENTRY", "FLOW_SEQUENCE_END"},
              "FLOW_SEQUENCE_ENTRY_MAPPING_END")

yaml_parser_parse_flow_sequence_entry_mapping_end(s) ==
    WithToken(s, LAMBDA t :
      Emit([t EXCEPT !.state = "FLOW_SEQUENCE_ENTRY"], Event(t, "MAPPING_END")))

yaml_parser_parse_flow_mapping_key(s, first) ==
    Go(SkipFirst(s, first), LAMBDA r : WithToken(r, LAMBDA t :
      FlowEntry(t, first, "FLOW_MAPPING_END", "did not find expected ',' or '}'",
        LAMBDA u :
          IF HeadToken(u).type = "KEY"
          THEN NodeOrEmpty(SKIP_TOKEN(u),
                           {"VALUE", "FLOW_ENTRY", "FLOW_MAPPING_END"},
                           "FLOW_MAPPING_VALUE", FALSE, FALSE)
          ELSE IF HeadToken(u).type # "FLOW_MAPPING_END"
          THEN yaml_parser_parse_node(PUSH_STATE(u, "FLOW_MAPPING_EMPTY_VALUE"),
                                      FALSE, FALSE)
          ELSE SKIP_TOKEN(Emit(POP_MARK(POP_STATE(u)), Event(u, "MAPPING_END"))))))

yaml_parser_parse_flow_mapping_value(s, empty) ==
    IF empty
    THEN WithToken(s, LAMBDA t :
           yaml_parser_process_empty_scalar([t EXCEPT !.state = "FLOW_MAPPING_KEY"]))
    ELSE FlowValue(s, {"FLOW_ENTRY", "FLOW_MAPPING_END"}, "FLOW_MAPPING_KEY")

yaml_parser_state_machine(s) ==
    CASE s.state = "STREAM_START" -> yaml_parser_parse_stream_start(s)
      [] s.state = "IMPLICIT_DOCUMENT_START" ->
           yaml_parser_parse_document_start(s, TRUE)
      [] s.state = "DOCUMENT_START" -> yaml_parser_parse_document_start(s, FALSE)
      [] s.state = "DOCUMENT_CONTENT" -> yaml_parser_parse_document_content(s)
      [] s.state = "DOCUMENT_END" -> yaml_parser_parse_document_end(s)
      [] s.state = "BLOCK_NODE" -> yaml_parser_parse_node(s, TRUE, FALSE)
      [] s.state = "BLOCK_SEQUENCE_FIRST_ENTRY" ->
           yaml_parser_parse_block_sequence_entry(s, TRUE)
      [] s.state = "BLOCK_SEQUENCE_ENTRY" ->
           yaml_parser_parse_block_sequence_entry(s, FALSE)
      [] s.state = "INDENTLESS_SEQUENCE_ENTRY" ->
           yaml_parser_parse_indentless_sequence_entry(s)
      [] s.state = "BLOCK_MAPPING_FIRST_KEY" ->
           yaml_parser_parse_block_mapping_key(s, TRUE)
      [] s.state = "BLOCK_MAPPING_KEY" -> yaml_parser_parse_block_mapping_key(s, FALSE)
      [] s.state = "BLOCK_MAPPING_VALUE" -> yaml_parser_parse_block_mapping_value(s)
      [] s.state = "FLOW_SEQUENCE_FIRST_ENTRY" ->
           yaml_parser_parse_flow_sequence_entry(s, TRUE)
      [] s.state = "FLOW_SEQUENCE_ENTRY" ->
           yaml_parser_parse_flow_sequence_entry(s, FALSE)
      [] s.state = "FLOW_SEQUENCE_ENTRY_MAPPING_KEY" ->
           yaml_parser_parse_flow_sequence_entry_mapping_key(s)
      [] s.state = "FLOW_SEQUENCE_ENTRY_MAPPING_VALUE" ->
           yaml_parser_parse_flow_sequence_entry_mapping_value(s)
      [] s.state = "FLOW_SEQUENCE_ENTRY_MAPPING_END" ->
           yaml_parser_parse_flow_sequence_entry_mapping_end(s)
      [] s.state = "FLOW_MAPPING_FIRST_KEY" ->
           yaml_parser_parse_flow_mapping_key(s, TRUE)
      [] s.state = "FLOW_MAPPING_KEY" -> yaml_parser_parse_flow_mapping_key(s, FALSE)
      [] s.state = "FLOW_MAPPING_VALUE" ->
           yaml_parser_parse_flow_mapping_value(s, FALSE)
      [] s.state = "FLOW_MAPPING_EMPTY_VALUE" ->
           yaml_parser_parse_flow_mapping_value(s, TRUE)

\* PEEK_TOKEN:
\*   (parser->token_available || yaml_parser_fetch_more_tokens(parser)) ? head : NULL
\* yaml_parser_parse: the event is erased first; after the end of the stream
\* or an error no event is produced and 1 is returned.
Call(op, s) ==
    IF op = "PEEK_TOKEN"
    THEN CHOOSE r \in {IF t.token_available THEN t
                       ELSE yaml_parser_fetch_more_tokens(t) : t \in {s}} : TRUE
    ELSE LET t == [s EXCEPT !.event = [type |-> "NO_EVENT"], !.tag_token = NoTagToken]
         IN IF s.stream_end_produced \/ Failed(s) \/ s.state = "END" THEN t
            ELSE CHOOSE r \in {IF u.event.type = "NO_EVENT" THEN u
                               ELSE [u EXCEPT !.event.state = s.state] :
                               u \in {yaml_parser_state_machine(t)}} : TRUE

yaml_parser_parse(s) == Call("yaml_parser_parse", s)

\* ---------------------------------------------------------------------------
\* The parser driven to the end of the stream: yaml_parser_parse is called
\* until it fails or delivers STREAM-END.  A call is run with a growing
\* number of iterations of the loop of yaml_parser_fetch_more_tokens
\* (ScanMore) until it returns (ParseReturn).
\* ---------------------------------------------------------------------------

MaxFetches == 16

LxS(kind) == Lx(kind, FALSE, 1)

LxN(kind, column) == Lx(kind, TRUE, column)

BlockLines(c) ==
    { << LxN("plain", c) >>, << LxN("plain", c), LxS("value") >>,
      << LxN("plain", c), LxS("value"), LxS("plain") >>,
      << LxN("key", c) >>, << LxN("value", c) >>, << LxN("entry", c) >> }

TagLx(handle, suffix) == LxAB("tag", FALSE, 1, handle, suffix)

TagDirectiveLx(handle, prefix) == LxAB("tagdirective", TRUE, 0, handle, prefix)

Pieces ==
    { << LxS(k) >> : k \in {"plain", "value", "key", "entry", "comma", "seqstart",
                            "seqend", "mapstart", "mapend", "quoted2"} }
    \cup { << LxAB("anchor", FALSE, 1, "x", "") >>,
           << LxAB("alias", FALSE, 1, "x", "") >>,
           << TagLx("", "x") >>,
           << LxAB("yamldirective", TRUE, 0, "1.1", "") >>,
           << LxAB("yamldirective", TRUE, 0, "1.2", "") >> }

DocPieces ==
    { << TagDirectiveLx("!t!", "p") >>, << TagDirectiveLx("!", "q") >>,
      << LxN("docstart", 0) >>, << LxN("docend", 0) >>,
      << TagLx("!t!", "x"), LxS("plain") >>, << TagLx("!", "x"), LxS("plain") >>,
      << TagLx("!!", "x"), LxS("plain") >> }

FlowAtoms == { LxS(k) : k \in {"plain", "value", "key", "comma"} }

\* The texts: at most three pieces of block and flow text, at most five
\* pieces of document text, or a flow collection of at most four atoms.
Blank(pieces) == pieces \cup { << >> }

InitParse ==
    /\ heap = << >>
    /\ \/ \E a, b, c \in Blank(BlockLines(0) \cup BlockLines(2) \cup Pieces) :
             vals = NewParser(a \o b \o c)
       \/ \E a, b, c, d, e \in Blank(DocPieces) :
             vals = NewParser(a \o b \o c \o d \o e)
       \/ \E open \in {"seqstart", "mapstart"},
             body \in UNION {[1..n -> FlowAtoms] : n \in 0..4},
             close \in { << >>, << LxS("seqend") >>, << LxS("mapend") >> } :
             vals = NewParser(<< LxS(open) >> \o body \o close)
    /\ pc = "parse"
    /\ aux = [events |-> << >>]

\* One more iteration of the loop of yaml_parser_fetch_more_tokens inside the
\* running call of yaml_parser_parse.
ScanMore ==
    /\ pc = "parse"
    /\ \E s \in {yaml_parser_parse(vals)} : s.blocked
    /\ vals.budget < MaxFetches
    /\ vals' = [vals EXCEPT !.budget = @ + 1]
    /\ UNCHANGED << heap, pc, aux >>

\* yaml_parser_parse returns.
ParseReturn ==
    /\ pc = "parse"
    /\ \E s \in {yaml_parser_parse(vals)} :
          /\ ~s.blocked
          /\ vals' = [s EXCEPT !.budget = 0]
          /\ aux' = [aux EXCEPT !.events =
                        IF s.event.type = "NO_EVENT" THEN @ ELSE Append(@, s.event)]
          /\ pc' = IF Failed(s) THEN "error"
                   ELSE IF s.event.type = "STREAM_END" THEN "end" ELSE "parse"
          /\ UNCHANGED heap

NextParse == ScanMore \/ ParseReturn

SpecParse == InitParse /\ [][NextParse]_vars


\* The states in which yaml_parser_parse emits the key, respectively the
\* value, of a mapping entry.
KeyStates ==
    {"BLOCK_MAPPING_FIRST_KEY", "BLOCK_MAPPING_KEY", "FLOW_MAPPING_FIRST_KEY",
     "FLOW_MAPPING_KEY", "FLOW_SEQUENCE_ENTRY_MAPPING_KEY"}

ValueStates ==
    {"BLOCK_MAPPING_VALUE", "FLOW_MAPPING_VALUE", "FLOW_MAPPING_EMPTY_VALUE",
     "FLOW_SEQUENCE_ENTRY_MAPPING_VALUE"}

NodeStarts == {"SCALAR", "ALIAS", "SEQUENCE_START", "MAPPING_START"}

\* Walks the events with the stack of the open collections; a mapping counts
\* the nodes emitted directly in it.  FALSE when a node of a mapping is not
\* emitted by the kind of state whose turn it is, or a mapping ends after a
\* key.
RECURSIVE Alternates(_, _, _)
Alternates(events, i, open) ==
    IF i > Len(events) THEN TRUE
    ELSE LET e == events[i]
             top == open[Len(open)]
             turn == IF open # << >> /\ top.type = "MAPPING_START"
                     THEN IF top.nodes % 2 = 0 THEN e.state \in KeyStates
                          ELSE e.state \in ValueStates
                     ELSE TRUE
             counted == IF open = << >> THEN open
                        ELSE SetTop(open, [top EXCEPT !.nodes = @ + 1])
         IN CASE e.type \in {"SCALAR", "ALIAS"} ->
                   turn /\ Alternates(events, i + 1, counted)
              [] e.type \in {"SEQUENCE_START", "MAPPING_START"} ->
                   turn /\ Alternates(events, i + 1,
                                      Append(counted, [type |-> e.type, nodes |-> 0]))
              [] e.type = "MAPPING_END" ->
                   /\ open # << >> /\ top.type = "MAPPING_START" /\ top.nodes % 2 = 0
                   /\ Alternates(events, i + 1, SubSeq(open, 1, Len(open) - 1))
              [] e.type = "SEQUENCE_END" ->
                   /\ open # << >>
                   /\ Alternates(events, i + 1, SubSeq(open, 1, Len(open) - 1))
              [] OTHER -> Alternates(events, i + 1, open)

\* The types of the tokens scanned so far: those taken and those queued.
Scanned(s) == s.taken \o TokenTypes(s.tokens)

\* Token i was taken and is a KEY directly followed by VALUE.
MissingKey(s, i) ==
    /\ i <= Len(s.taken) /\ i < Len(Scanned(s))
    /\ Scanned(s)[i] = "KEY" /\ Scanned(s)[i + 1] = "VALUE"

\* Token i was taken and is a VALUE directly followed by the start of the
\* next entry or the end of the mapping.
MissingValue(s, i) ==
    /\ i <= Len(s.taken) /\ i < Len(Scanned(s))
    /\ Scanned(s)[i] = "VALUE"
    /\ Scanned(s)[i + 1] \in {"KEY", "BLOCK_END", "FLOW_ENTRY", "FLOW_MAPPING_END"}

EmptyPlainScalar(e) ==
    /\ e.type = "SCALAR" /\ e.value = "" /\ e.style = "plain"
    /\ e.anchor = "" /\ e.tag = ""

\* The first event initialised after `taken' tokens that is emitted in one of
\* `states' is an empty plain scalar.
FirstIsEmpty(events, taken, states) ==
    \A k \in 1..Len(events) :
        /\ events[k].n >= taken /\ events[k].state \in states
        /\ \A j \in 1..(k - 1) : ~(events[j].n >= taken /\ events[j].state \in states)
        => EmptyPlainScalar(events[k])

\* C26: between MAPPING-START and its MAPPING-END the nodes are emitted
\* alternately as key and as value, a key first; and where the token stream
\* has no key node (KEY directly followed by VALUE) or no value node (VALUE
\* directly followed by KEY, BLOCK-END, FLOW-ENTRY or FLOW-MAPPING-END) the
\* event emitted in that place is an empty plain scalar.
C26_MappingEntries ==
    /\ Alternates(aux.events, 1, << >>)
    /\ \A i \in 1..Len(vals.taken) :
          /\ MissingKey(vals, i) => FirstIsEmpty(aux.events, i, KeyStates)
          /\ MissingValue(vals, i) => FirstIsEmpty(aux.events, i, ValueStates)

\* A stream parsed to its end in which a key and a value were missing: the
\* value before a ',' of a flow mapping.
C26_Witness ==
    /\ pc = "end"
    /\ \E i \in 1..Len(vals.taken) : MissingKey(vals, i)
    /\ \E i \in 1..Len(vals.taken) :
          MissingValue(vals, i) /\ Scanned(vals)[i + 1] = "FLOW_ENTRY"
    /\ \E k \in 1..Len(aux.events) : aux.events[k].type = "MAPPING_END"


\* The %TAG directives of the document that event k belongs to: those of the
\* last DOCUMENT-START event before it.
DocumentOf(events, k) ==
    LET starts == {j \in 1..(k - 1) : events[j].type = "DOCUMENT_START"}
    IN IF starts = { } THEN 0
       ELSE CHOOSE j \in starts : \A i \in starts : i <= j

OwnDirectives(events, k) ==
    IF DocumentOf(events, k) = 0 THEN << >>
    ELSE events[DocumentOf(events, k)].tag_directives

\* The prefixes a handle is bound to by the document's own directives, and
\* else by the defaults.
Prefixes(own, handle) ==
    LET mine == {own[i].prefix : i \in {i \in 1..Len(own) : own[i].handle = handle}}
    IN IF mine # { } THEN mine
       ELSE {default_tag_directives[i].prefix :
               i \in {i \in 1..2 : default_tag_directives[i].handle = handle}}

\* The tag that the TAG token gives a node of a document with directives `own'.
TagOf(own, token) ==
    IF token.handle = "" THEN {token.suffix}
    ELSE {prefix \o token.suffix : prefix \in Prefixes(own, token.handle)}

UndefinedHandle(own, token) ==
    token.tagged /\ token.handle # "" /\ Prefixes(own, token.handle) = { }

\* C27: the tag of an event is the suffix of its TAG token when the handle is
\* empty, otherwise the prefix that the %TAG directives of its own document
\* or the defaults ! and !! bind to the handle, followed by the suffix;
\* yaml_parser_parse fails with "found undefined tag handle" exactly when the
\* TAG token of the node has a handle bound by neither.
C27_TagResolution ==
    /\ \A k \in 1..Len(aux.events) :
          LET e == aux.events[k]
          IN IF e.tag_token.tagged
             THEN TagOf(OwnDirectives(aux.events, k), e.tag_token) = {e.tag}
             ELSE e.tag = ""
    /\ vals.error = "found undefined tag handle"
          <=> UndefinedHandle(OwnDirectives(aux.events, Len(aux.events) + 1),
                              vals.tag_token)

\* A second document uses a handle that only a %TAG directive of the first
\* document binds, after a node of the first document was tagged with it.
C27_Witness ==
    /\ vals.error = "found undefined tag handle"
    /\ \E k \in 1..Len(aux.events) :
          /\ aux.events[k].tag_token.handle = vals.tag_token.handle
          /\ aux.events[k].tag = "px"
    /\ OwnDirectives(aux.events, Len(aux.events) + 1) = << >>


Handles(directives) == {directives[i].handle : i \in 1..Len(directives)}

\* C28: yaml_parser_parse fails with "found duplicate %TAG directive" only at
\* a %TAG directive whose handle an earlier %TAG directive of the same
\* document binds, no document starts with two %TAG directives for one
\* handle, and the defaults ! and !! are seeded without that error also
\* where the document binds them itself.
C28_DuplicateTagDirective ==
    /\ vals.error = "found duplicate %TAG directive"
          => /\ vals.tokens # << >>
             /\ vals.tokens[1].type = "TAG_DIRECTIVE"
             /\ vals.tokens[1].a \in Handles(vals.own_directives)
    /\ \A k \in 1..Len(aux.events) :
          LET own == aux.events[k].tag_directives
          IN \A i, j \in 1..Len(own) : own[i].handle = own[j].handle => i = j
    /\ vals.error = ""
          => \A i, j \in 1..Len(vals.own_directives) :
                vals.own_directives[i].handle = vals.own_directives[j].handle => i = j

\* A document that binds the handle ! itself has started, and a later
\* document is rejected at its second %TAG directive for one handle.
C28_Witness ==
    /\ vals.error = "found duplicate %TAG directive"
    /\ \E k \in 1..Len(aux.events) :
          /\ aux.events[k].type = "DOCUMENT_START"
          /\ "!" \in Handles(aux.events[k].tag_directives)


StartOf(type) ==
    CASE type = "STREAM_END" -> "STREAM_START"
      [] type = "DOCUMENT_END" -> "DOCUMENT_START"
      [] type = "SEQUENCE_END" -> "SEQUENCE_START"
      [] type = "MAPPING_END" -> "MAPPING_START"

NodeParents == {"DOCUMENT_START", "SEQUENCE_START", "MAPPING_START"}

\* Walks the events with the stack `open' of the starts that are not closed
\* yet, and gives that stack at the end, or << "MISMATCH" >> when an event
\* does not fit the innermost open start.
RECURSIVE Nesting(_, _, _)
Nesting(events, i, open) ==
    IF i > Len(events) THEN open
    ELSE LET type == events[i].type
             top == IF open = << >> THEN "" ELSE open[Len(open)]
             fits == CASE type = "STREAM_START" -> i = 1
                       [] type = "DOCUMENT_START" -> top = "STREAM_START"
                       [] type \in NodeStarts -> top \in NodeParents
                       [] OTHER -> top = StartOf(type)
             next == CASE type \in {"STREAM_START", "DOCUMENT_START",
                                    "SEQUENCE_START", "MAPPING_START"} ->
                            Append(open, type)
                       [] type \in {"SCALAR", "ALIAS"} -> open
                       [] OTHER -> SubSeq(open, 1, Len(open) - 1)
         IN IF fits THEN Nesting(events, i + 1, next) ELSE << "MISMATCH" >>

\* C29: the events delivered so far are well nested, every END event closing
\* the innermost open START of its kind; when yaml_parser_parse has delivered
\* STREAM-END without an error, STREAM-START is the first event, STREAM-END
\* the last, and no document, sequence or mapping is left open.
C29_WellNested ==
    /\ Nesting(aux.events, 1, << >>) # << "MISMATCH" >>
    /\ pc = "end"
          => /\ Nesting(aux.events, 1, << >>) = << >>
             /\ aux.events[1].type = "STREAM_START"
             /\ aux.events[Len(aux.events)].type = "STREAM_END"
             /\ \A k \in 1..(Len(aux.events) - 1) : aux.events[k].type # "STREAM_END"

\* The starts left open by the first k events.
OpenAfter(k) == Nesting(SubSeq(aux.events, 1, k), 1, << >>)

\* A stream parsed to its end in which a mapping was open inside a sequence
\* or a sequence inside a mapping.
C29_Witness ==
    /\ pc = "end"
    /\ \E k \in 1..Len(aux.events) :
          /\ Len(OpenAfter(k)) = 4
          /\ OpenAfter(k)[3] # OpenAfter(k)[4]

\* ---------------------------------------------------------------------------
\* LoadYamlText (src/ValueYaml.cpp): the binder calls yaml_parser_parse from
\* ParseScalar and from ParseMapping.  `frames' is the call stack of the
\* binder; the frame on top is the function that calls yaml_parser_parse
\* next.  A value is known by its kind, an array also by whether all its
\* elements are objects; `anchors' is mAnchors.
\* ---------------------------------------------------------------------------

NullValue == [kind |-> "null", objects |-> TRUE]

ScalarFrame == [fn |-> "ParseScalar", anchor |-> ""]

\* mAnchors[name] = value
SetAnchor(anchors, name, value) ==
    IF name = "" THEN anchors
    ELSE [n \in DOMAIN anchors \cup {name} |->
            IF n = name THEN value ELSE anchors[n]]

\* The function on top of `frames' returns `result' with `value' to its
\* caller, which goes on until the binder calls yaml_parser_parse again or
\* LoadYamlText returns.
RECURSIVE ReturnTo(_, _, _, _)
ReturnTo(frames, result, value, anchors) ==
    LET callee == frames[Len(frames)]
        rest == SubSeq(frames, 1, Len(frames) - 1)
        caller == rest[Len(rest)]
    IN IF rest = << >>
       THEN [frames |-> << >>, result |-> result, anchors |-> anchors]
       ELSE IF caller.fn = "ParseSequence"
       THEN IF result = "kYamlEnd"
            THEN ReturnTo(rest, "kYamlOk",
                        [kind |-> "array", objects |-> caller.objects], anchors)
            ELSE IF result = "kYamlError"
            THEN ReturnTo(rest, "kYamlError", NullValue, anchors)
            ELSE [frames |-> Append(SetTop(rest,
                                 [caller EXCEPT !.objects = @ /\ value.kind = "object"]),
                               ScalarFrame),
                  result |-> "", anchors |-> anchors]
       ELSE IF caller.fn = "ParseMapping"
       THEN LET success == value.kind \in {"null", "scalar", "object"} \/ value.objects
                merged == IF caller.merge /\ result = "kYamlOk" /\ ~success
                          THEN "kYamlError" ELSE result
            IN IF merged # "kYamlOk"
               THEN ReturnTo(rest, merged, [kind |-> "object", objects |-> TRUE], anchors)
               ELSE [frames |-> rest, result |-> "", anchors |-> anchors]
       ELSE \* ParseScalar called ParseSequence or ParseMapping
            ReturnTo(rest, result, value, SetAnchor(anchors, caller.anchor, value))

\* Takes the end of a document or of the stream for an event to skip.
SkippedEventsAndEnds ==
    {"NO_EVENT", "STREAM_START", "DOCUMENT_START", "STREAM_END", "DOCUMENT_END"}

\* The events after which ParseScalar calls yaml_parser_parse again.
SkippedEvents == {"NO_EVENT", "STREAM_START", "DOCUMENT_START"}

\* ParseScalar after yaml_parser_parse has returned parser s.
ParseScalarEvent(frames, s, anchors) ==
    LET e == s.event
        top == frames[Len(frames)]
        wait(fn) == Append(SetTop(frames, [top EXCEPT !.anchor = e.anchor]), fn)
    IN IF Failed(s) THEN ReturnTo(frames, "kYamlError", NullValue, anchors)
       ELSE CASE e.type \in SkippedEvents ->
                   [frames |-> frames, result |-> "", anchors |-> anchors]
              [] e.type \in {"STREAM_END", "DOCUMENT_END"} ->
                   ReturnTo(frames, "kYamlOk", NullValue, anchors)
              [] e.type = "SEQUENCE_START" ->
                   [frames |-> Append(wait([fn |-> "ParseSequence", objects |-> TRUE]),
                                      ScalarFrame),
                    result |-> "", anchors |-> anchors]
              [] e.type = "MAPPING_START" ->
                   [frames |-> wait([fn |-> "ParseMapping", merge |-> FALSE]),
                    result |-> "", anchors |-> anchors]
              [] e.type \in {"SEQUENCE_END", "MAPPING_END"} ->
                   ReturnTo(frames, "kYamlEnd", NullValue, anchors)
              [] e.type = "ALIAS" ->
                   IF e.anchor \in DOMAIN anchors
                   THEN ReturnTo(frames, "kYamlOk", anchors[e.anchor], anchors)
                   ELSE ReturnTo(frames, "kYamlError", NullValue, anchors)
              [] e.type = "SCALAR" ->
                   LET value == [kind |-> IF e.style = "plain" /\ e.value = ""
                                          THEN "null" ELSE "scalar",
                                 objects |-> TRUE]
                   IN ReturnTo(frames, "kYamlOk", value,
                             SetAnchor(anchors, e.anchor, value))

\* ParseMapping after yaml_parser_parse has returned parser s.
ParseMappingEvent(frames, s, anchors) ==
    LET e == s.event
        top == frames[Len(frames)]
        object == [kind |-> "object", objects |-> TRUE]
    IN IF Failed(s) THEN ReturnTo(frames, "kYamlError", object, anchors)
       ELSE IF e.type = "MAPPING_END" THEN ReturnTo(frames, "kYamlOk", object, anchors)
       ELSE IF e.type # "SCALAR" THEN ReturnTo(frames, "kYamlError", object, anchors)
       ELSE [frames |-> Append(SetTop(frames, [top EXCEPT !.merge = e.value = "<<"]),
                               ScalarFrame),
             result |-> "", anchors |-> anchors]

MergeKey(c) == << LxAB("plain", TRUE, c, "<<", ""), LxS("value") >>

LoadPieces ==
    { << LxN("plain", 0) >>, << LxN("plain", 0), LxS("value") >>,
      << LxN("plain", 2), LxS("value"), LxS("plain") >>,
      << LxN("key", 0) >>, << LxN("value", 0) >>, << LxN("entry", 0) >>,
      << LxN("entry", 2) >>, MergeKey(0), MergeKey(2),
      << LxN("docstart", 0) >>, << LxN("docend", 0) >>,
      << LxAB("anchor", FALSE, 1, "x", "") >>, << LxAB("alias", FALSE, 1, "x", "") >> }
    \cup { << LxS(k) >> : k \in {"plain", "value", "entry", "comma", "seqstart",
                                 "seqend", "mapstart", "mapend"} }

FlowMap == << LxS("mapstart"), LxS("plain"), LxS("value"), LxS("plain"), LxS("mapend") >>

Word(kind, word) == << LxAB(kind, FALSE, 1, word, "") >>

\* - &x { a : b }        << : [ { a : b } ]      << : [ { a : b } , c ]
\* - << : *x
\* - - a                 a : b                   --- a
\*   - b                 c : [ d , *x ]          ...
\* - c                                           --- b
LoadSamples ==
    { << LxN("entry", 0) >> \o Word("anchor", "x") \o FlowMap
         \o << LxN("entry", 0) >> \o Word("plain", "<<") \o << LxS("value") >>
         \o Word("alias", "x"),
      MergeKey(0) \o << LxS("seqstart") >> \o FlowMap \o << LxS("seqend") >>,
      MergeKey(0) \o << LxS("seqstart") >> \o FlowMap
         \o << LxS("comma"), LxS("plain"), LxS("seqend") >>,
      << LxN("entry", 0), LxS("entry"), LxS("plain"), LxN("entry", 2), LxS("plain"),
         LxN("entry", 0), LxS("plain") >>,
      << LxN("plain", 0), LxS("value"), LxS("plain"), LxN("plain", 0), LxS("value"),
         LxS("seqstart"), LxS("plain"), LxS("comma") >> \o Word("alias", "x")
         \o << LxS("seqend") >>,
      << LxN("docstart", 0), LxS("plain"), LxN("docend", 0), LxN("docstart", 0),
         LxS("plain") >> }

InitLoad ==
    /\ heap = << >>
    /\ vals = NewParser(<< >>)
    /\ pc = "start"
    /\ aux = [frames |-> << >>, result |-> "", anchors |-> << >>]

\* LoadYamlText(text, ...): the reader is constructed on the text and
\* ParseScalar is called.
LoadYamlText ==
    /\ pc = "start"
    /\ \/ \E a, b \in Blank(LoadPieces) : vals' = NewParser(a \o b)
       \/ \E text \in LoadSamples : vals' = NewParser(text)
    /\ pc' = "parse"
    /\ aux' = [aux EXCEPT !.frames = << ScalarFrame >>]
    /\ UNCHANGED heap

\* yaml_parser_parse returns to ParseScalar or ParseMapping, which goes on to
\* its next call of yaml_parser_parse or to the end of LoadYamlText.
BinderStep ==
    /\ pc = "parse"
    /\ \E s \in {yaml_parser_parse(vals)} :
       \E r \in {IF aux.frames[Len(aux.frames)].fn = "ParseScalar"
                 THEN ParseScalarEvent(aux.frames, s, aux.anchors)
                 ELSE ParseMappingEvent(aux.frames, s, aux.anchors)} :
          /\ ~s.blocked
          /\ vals' = [s EXCEPT !.budget = 0]
          /\ aux' = [frames |-> r.frames, result |-> r.result, anchors |-> r.anchors]
          /\ pc' = IF r.frames = << >> THEN "returned" ELSE "parse"
          /\ UNCHANGED heap

NextLoad == LoadYamlText \/ ScanMore \/ BinderStep

\* Neither the scanner nor the binder stops in the middle of a call.
SpecLoad == InitLoad /\ [][NextLoad]_vars /\ WF_vars(NextLoad)


\* C30: every call of LoadYamlText returns: the loop of
\* yaml_parser_fetch_more_tokens ends in every call of yaml_parser_parse, and
\* the binder stops calling yaml_parser_parse.
C30_LoadTerminates == (pc = "parse") ~> (pc = "returned")

\* LoadYamlText has returned without an error after ParseSequence and
\* ParseMapping read a sequence of two mappings, the second one merged from
\* an alias of the first.
C30_Witness ==
    /\ pc = "returned"
    /\ aux.result = "kYamlOk"
    /\ "x" \in DOMAIN aux.anchors
    /\ aux.anchors["x"].kind = "object"
    /\ \E i \in 1..Len(vals.taken) : vals.taken[i] = "ALIAS"
    /\ vals.budget = 0


----------------------------------------------------------------------------
(* LoadConfig: termination of the two expansions                           *)

\* Neither recursion keeps a record of what it has visited, so one that
\* comes back to where it started (a member on its own template chain, a
\* file on its own import chain) meets the same arguments and the same data
\* again and never returns. ImportStep leaves idx at 1; the template steps
\* run behind it, with idx past the first member.
ImportsRanAway == pc = "crashed" /\ aux.idx = 1

TemplatesRanAway == pc = "crashed" /\ aux.idx > 1

\* C31: template expansion terminates for every finite configuration tree:
\* the recursion of ApplyTemplatesInternal never runs away, also when an
\* object's `template` names its own key or sibling templates form a cycle.
C31_TemplatesTerminate == ~TemplatesRanAway


\* C32: LoadConfig terminates for every finite set of configuration files:
\* the recursion of LoadImport and AddImports never runs away, also when a
\* file imports itself or files import each other in a cycle.
C32_ImportsTerminate == ~ImportsRanAway


----------------------------------------------------------------------------
(* A mapping with the same key more than once.                             *)

\* What a node yields when it is parsed into a Value that is still null,
\* with no anchor bound: the value the document gives for its key.
ValueGiven(node) ==
    CHOOSE t \in { [result |-> p.result, tree |-> Snapshot(p.h, p.v)] :
                     p \in {ParseScalar(<< >>, [n \in AnchorNames |-> NoAnchor],
                                        kNullValue, node)} } : TRUE

\* The last pair has a key that the root mapping held already.
DuplicateCase ==
    /\ aux.count > 0
    /\ aux.key # "<<"
    /\ TMember(aux.prev, aux.key) # TAbsent
    /\ ValueGiven(aux.node).result = "kYamlOk"

\* C33: when a mapping has the same key more than once, ParseMapping is
\* never called with a null object pointer, and the object has that key
\* exactly once, holding exactly the last value given for it, whatever the
\* kinds of the earlier and the later value.
C33_LastDuplicateWins ==
    DuplicateCase =>
        /\ aux.result # "crash"
        /\ aux.result = "kYamlOk" =>
              LET now == Snapshot(heap, vals.value)
              IN  /\ Cardinality({i \in 1..Len(now.kids) : now.kids[i].name = aux.key}) = 1
                  /\ TMember(now, aux.key) = ValueGiven(aux.node).tree


----------------------------------------------------------------------------
(* Value::operator== and the relational operators, against Value::Compare. *)

\* Where the keys of the operands' members come from: every
\* UpdateMember(key) made a StringValue of its own (CreateStringValue), or
\* both operands were built with one StringTable, whose GetString hands out
\* one StringValue for each text.
KeyModes == {"own", "table"}

\* The StringValue that the key of member i of payload o points to.
KeyPointer(mode, o, i, key) ==
    IF mode = "table" THEN << 0, KeyRank(key) >> ELSE << o, i >>

RECURSIVE ValueEquals(_, _, _, _)

\* ArrayValue::operator==
ArrayEquals(h, mode, a1, a2) ==
    /\ Len(h[a1].elts) = Len(h[a2].elts)
    /\ \A i \in 1..Len(h[a1].elts) : ValueEquals(h, mode, h[a1].elts[i], h[a2].elts[i])

\* ObjectValue::operator== : mMap == other.mMap, the operator== of
\* std::vector<std::pair<AutoRef<StringValue>, Value>>. A pair compares
\* first == first, which for two AutoRefs goes through operator T*() and
\* compares the pointers, and second == second, which is Value::operator==.
ObjectEquals(h, mode, o1, o2) ==
    /\ Len(h[o1].map) = Len(h[o2].map)
    /\ \A i \in 1..Len(h[o1].map) :
          /\ KeyPointer(mode, o1, i, h[o1].map[i].first)
               = KeyPointer(mode, o2, i, h[o2].map[i].first)
          /\ ValueEquals(h, mode, h[o1].map[i].second, h[o2].map[i].second)

\* Value::operator==
ValueEquals(h, mode, a, b) ==
    IF a.type # b.type THEN FALSE
    ELSE IF a.type = "null" THEN TRUE
    ELSE IF a.type = "double" THEN ~IsNaN(a) /\ ~IsNaN(b) /\ a.num = b.num
    ELSE IF a.type \in {"bool", "int", "uint", "int64", "uint64"} THEN a.num = b.num
    ELSE IF a.type = "string" THEN a.str = b.str
    ELSE IF a.type = "array"
    THEN a.ref = b.ref \/ (a.ref # 0 /\ b.ref # 0 /\ ArrayEquals(h, mode, a.ref, b.ref))
    ELSE /\ Len(h[a.ref].map) = Len(h[b.ref].map)
         /\ ObjectEquals(h, mode, a.ref, b.ref)

\* Value::operator<
ValueLess(h, a, b) ==
    IF a.type # b.type THEN TypeRank(a.type) < TypeRank(b.type)
    ELSE IF a.type = "null" THEN FALSE
    ELSE IF a.type = "double" THEN ~IsNaN(a) /\ ~IsNaN(b) /\ a.num < b.num
    ELSE IF a.type \in {"bool", "int", "uint", "int64", "uint64"} THEN a.num < b.num
    ELSE ValueCompare(h, a, b) < 0

\* Value::operator>  :  other < *this
ValueGreater(h, a, b) == ValueLess(h, b, a)

\* Value::operator<= :  !(other > *this)
ValueLessEqual(h, a, b) == ~ValueGreater(h, b, a)

\* Value::operator>= :  !(*this < other)
ValueGreaterEqual(h, a, b) == ~ValueLess(h, a, b)

InitEqual ==
    /\ \E ta \in CompareTrees, tb \in CompareTrees, mode \in KeyModes :
          \E ba \in {Build(<< >>, ta)} :
          \E bb \in {Build(ba.h, tb)} :
              /\ heap = bb.h
              /\ vals = [a |-> ba.v, b |-> bb.v]
              /\ aux = [mode |-> mode, eq |-> FALSE, cmp |-> 0, lt |-> FALSE,
                        le |-> FALSE, gt |-> FALSE, ge |-> FALSE, tl |-> FALSE,
                        el |-> FALSE]
    /\ pc = "have"

\* a == b, a.Compare(b), a < b, a <= b, a > b, a >= b, and b < a, b <= a.
DoOperators ==
    /\ pc = "have"
    /\ aux' = [aux EXCEPT !.eq = ValueEquals(heap, aux.mode, vals.a, vals.b),
                          !.cmp = ValueCompare(heap, vals.a, vals.b),
                          !.lt = ValueLess(heap, vals.a, vals.b),
                          !.le = ValueLessEqual(heap, vals.a, vals.b),
                          !.gt = ValueGreater(heap, vals.a, vals.b),
                          !.ge = ValueGreaterEqual(heap, vals.a, vals.b),
                          !.tl = ValueLess(heap, vals.b, vals.a),
                          !.el = ValueLessEqual(heap, vals.b, vals.a)]
    /\ pc' = "compared"
    /\ UNCHANGED << heap, vals >>

NextEqual == DoOperators

SpecEqual == InitEqual /\ [][NextEqual]_vars

\* C34: equality and Compare agree: a == b holds if and only if
\* a.Compare(b) == 0; in particular two objects built independently with
\* byte-equal keys and equal member values are equal under both.
C34_EqualsIffCompareZero ==
    pc = "compared" => (aux.eq <=> aux.cmp = 0)


\* C35: the relational operators form one consistent order: for a and b of
\* the same type, a <= b holds if and only if a < b or a == b, a >= b holds
\* if and only if b <= a, and a > b holds if and only if b < a.
C35_OneOrder ==
    (pc = "compared" /\ vals.a.type = vals.b.type) =>
        /\ aux.le <=> (aux.lt \/ aux.eq)
        /\ aux.ge <=> aux.el
        /\ aux.gt <=> aux.tl


----------------------------------------------------------------------------
(* Template expansion of a `template` member that is not a string.         *)

\* Values of a `template` member that are present and not a string.
NonStringTemplates ==
    {TInt(5), TInt(0), TBool(TRUE), TBool(FALSE), TArr(<< >>), TArr(<< TStr("b") >>),
     TObj(<< >>), TObj(Kid("q", TInt(1)))}

\* Documents  { "": ..., a: { p: 1, template: V }, b: ..., true: ... }  with
\* V not a string and each sibling of a there or not.
NonStringDocs ==
    { TObj(KidOrNone("", e) \o Kid("a", TObj(Kid("p", TInt(1)) \o Kid("template", v)))
           \o KidOrNone("b", b) \o KidOrNone("true", t)) :
        v \in NonStringTemplates,
        e \in {TAbsent, TObj(Kid("q", TInt(2)))},
        b \in {TAbsent, TObj(Kid("q", TInt(3)))},
        t \in {TAbsent, TInt(1), TObj(Kid("q", TInt(4)))} }

InitTemplate ==
    /\ \E t \in NonStringDocs :
          \E b \in {Build(<< >>, t)} :
              /\ heap = b.h
              /\ vals = [config |-> b.v]
              /\ aux = [doc |-> t, ok |-> FALSE, errs |-> 0]
    /\ pc = "loaded"

\* success = ApplyTemplates(&config, errors);
ExpandTemplates ==
    /\ pc = "loaded"
    /\ \E r \in {ApplyTemplates(heap, vals.config)} :
           /\ heap' = r.h
           /\ aux' = [aux EXCEPT !.ok = r.ok, !.errs = r.errs]
           /\ pc' = IF r.crash THEN "crashed" ELSE "expanded"
    /\ UNCHANGED vals

NextTemplate == ExpandTemplates

SpecTemplate == InitTemplate /\ [][NextTemplate]_vars

\* C36: an object whose `template` member is present but not a string (a
\* number, a bool, an array, an object) is left unchanged by template
\* expansion, keeps its `template` member, and causes no error.
C36_NonStringTemplateIgnored ==
    pc = "expanded" =>
        /\ Snapshot(heap, vals.config) = aux.doc
        /\ aux.ok
        /\ aux.errs = 0


\* ---------------------------------------------------------------------------
\* The stacks of the parser: parser->states and parser->marks (PUSH, POP).
\* ---------------------------------------------------------------------------

CollectionProblems ==
    {"did not find expected '-' indicator", "did not find expected key",
     "did not find expected ',' or ']'", "did not find expected ',' or '}'"}

\* The events of the given types that yaml_parser_parse has produced.
EventsOf(types) == {k \in 1..Len(aux.events) : aux.events[k].type \in types}

\* C37: the parser never pops parser->states or parser->marks when the stack
\* is empty, on the paths that succeed and on those that end in an error
\* alike, and both stacks are empty when STREAM-END is produced.
C37_StacksBalanced ==
    /\ ~vals.empty_pop
    /\ pc = "end" => vals.states = << >> /\ vals.marks = << >>

\* STREAM-END is produced behind a collection nested in another one.
C37_Witness ==
    /\ pc = "end"
    /\ Cardinality(EventsOf({"SEQUENCE_END", "MAPPING_END"})) >= 2
    /\ vals.states = << >> /\ vals.marks = << >>
    /\ ~vals.empty_pop

\* A collection has ended in an error, inside another collection.
C37_ErrorPath ==
    /\ pc = "error"
    /\ vals.error \in CollectionProblems
    /\ vals.marks # << >>
    /\ ~vals.empty_pop


\* ---------------------------------------------------------------------------
\* The token numbers of the simple-key candidates (yaml_parser_save_simple_key,
\* yaml_parser_fetch_value, yaml_parser_fetch_more_tokens, QUEUE_INSERT).
\* ---------------------------------------------------------------------------

\* The candidates of parser s that are still possible.
PossibleKeys(s) ==
    {i \in 1..Len(s.simple_keys) : s.simple_keys[i].possible}

\* The index that QUEUE_INSERT would be given for candidate i lies inside
\* the queue of tokens.
InsideQueue(s, i) ==
    /\ s.tokens_parsed <= s.simple_keys[i].token_number
    /\ s.simple_keys[i].token_number <= s.tokens_parsed + Len(s.tokens)

\* C38: for every simple-key candidate that is still possible,
\* tokens_parsed <= token_number <= tokens_parsed + (length of the queue), so
\* the index token_number - tokens_parsed that yaml_parser_fetch_value gives
\* QUEUE_INSERT lies inside the queue and names no token already consumed.
C38_KeyInsideQueue ==
    \A i \in PossibleKeys(vals) : InsideQueue(vals, i)

\* Tokens have been consumed, a candidate is possible strictly inside the
\* queue, and yaml_parser_fetch_value has inserted a KEY token before.
C38_Witness ==
    /\ vals.tokens_parsed > 0
    /\ \E i \in PossibleKeys(vals) :
           /\ vals.tokens_parsed < vals.simple_keys[i].token_number
           /\ vals.simple_keys[i].token_number < vals.tokens_parsed + Len(vals.tokens)
    /\ \E j \in 1..Len(aux.out) : aux.out[j].type = "KEY" /\ aux.out[j].simple


\* ---------------------------------------------------------------------------
\* The depth of the simple-key stack (yaml_parser_increase_flow_level,
\* yaml_parser_decrease_flow_level, yaml_parser_fetch_stream_start).
\* ---------------------------------------------------------------------------

\* The number of tokens of the given type among `tokens'.
CountType(tokens, type) ==
    Cardinality({i \in 1..Len(tokens) : tokens[i].type = type})

\* A ']' has been scanned with no flow collection open: the scanner has
\* produced more FLOW-SEQUENCE-END tokens than FLOW-SEQUENCE-START tokens.
StrayFlowEnd ==
    CountType(aux.out \o vals.tokens, "FLOW_SEQUENCE_END")
        > CountType(aux.out \o vals.tokens, "FLOW_SEQUENCE_START")

\* C39: in every scanner state after STREAM-START the flow level is not
\* negative and the simple-key stack holds exactly flow_level + 1 entries, so
\* the top entry that save_simple_key, remove_simple_key and fetch_value read
\* exists, also after a ']' that closes no flow collection.
C39_SimpleKeyStackDepth ==
    vals.stream_start_produced =>
        /\ vals.flow_level >= 0
        /\ Len(vals.simple_keys) = vals.flow_level + 1

C39_Witness ==
    /\ StrayFlowEnd
    /\ vals.stream_start_produced
    /\ vals.flow_level = 0
    /\ Len(vals.simple_keys) = 1


----------------------------------------------------------------------------
(* The member vector of an object payload.                                 *)

\* The members of m are in strictly ascending strcmp order of their keys.
StrictlySorted(m) ==
    \A i, j \in 1..Len(m) : i < j => KeyLess(m[i].first, m[j].first)

\* C40: the members of every object payload are stored strictly sorted by
\* byte-wise key comparison, no two of them with byte-equal keys, so that
\* the binary search of find reaches a key if and only if a member has it.
C40_MembersSorted ==
    \A o \in 1..Len(heap) :
        heap[o].kind = "object" =>
            /\ StrictlySorted(heap[o].map)
            /\ \A key \in MemberKeys :
                  (MapFind(heap[o].map, key) # 0)
                      <=> (\E i \in 1..Len(heap[o].map) : heap[o].map[i].first = key)

\* SetMember("a") has put its member in front of the member b that
\* SetMember("b") had made.
C40_Witness ==
    /\ pc = "idle"
    /\ aux.op = "SetMember" /\ aux.key = "a"
    /\ aux.w0 = TObj(Kid("b", TInt(2)))
    /\ Snapshot(heap, vals.w) = TObj(Kid("a", TInt(2)) \o Kid("b", TInt(2)))

====
